---- MODULE Spec2Model ----
(***************************************************************************)
(* Planning-poker room server.  Two server programs live in the            *)
(* repository: the clientId-keyed server of src/unnamed/part_000 (lines    *)
(* 225-453) and the reduced server of src/server/server.js.  Both are      *)
(* modelled as state machines over the same variables; the variable        *)
(* program says which of the two a run executes.  Spec runs either,        *)
(* SpecPair runs two copies in lockstep on events that differ only in the  *)
(* values voted.                                                           *)
(***************************************************************************)
EXTENDS Integers, Sequences, FiniteSets, TLC

\* Number of client events (join, story, deck, vote, reveal, reset, throw,
\* disconnect) in one run.
MaxEvents == 4

\* ------------------------------------------------------------------ inputs
\* Ids the nanoid source hands out for rooms, in the order it hands them.
RoomIds == <<"r1", "r2">>
\* Ids the nanoid source hands out for participants that supply none.
MintIds == <<"n1">>
\* Transport connections (socket.id).
SocketIds == {"s1", "s2", "s3"}
\* Identities a client may supply itself.
ClientIds == {"a"}

\* What happens in a run: which server programs may run, whether a second run
\* shadows the first, how many client events and how many rooms there are, the deck
\* a room creation request gives (<<>> for none, <<d>> for the list d),
\* the room ids clients name, display names as typed (one character per
\* element), the sockets that connect, clientIds clients supply, (asHost, asSpectator) pairs, values
\* voted, story texts, decks.

\* Spec: every shape of display name; one room is created, "r2" names a
\* room that does not exist.
\* A deck argument of set_deck: an array of items, or a value that is not an
\* array (a string, an object with a length) holding the same items.
ListOf(items) == [isArray |-> TRUE, items |-> items]
NotList(items) == [isArray |-> FALSE, items |-> items]

IdentityInputs ==
  [programs |-> {"part_000", "server.js"},
   pair    |-> FALSE,
   events  |-> MaxEvents,
   rooms   |-> 1,
   roomDecks |-> { <<>> },
   named   |-> {"r1", "r2"},
   names   |-> { <<"A">>, <<" ", "a", " ">>, <<"B">>, <<" ">> },
   sockets |-> {"s1", "s2"},
   clients |-> ClientIds,
   flags   |-> { <<FALSE, FALSE>> },
   votes   |-> { <<"3">> },
   stories |-> { <<"s">> },
   decks   |-> { ListOf(<<"1", "2">>) }]

\* SpecPair: two runs of the same events that differ in the values voted.
PairInputs ==
  [IdentityInputs EXCEPT !.pair = TRUE,
                         !.names = { <<"A">>, <<"B">> },
                         !.votes = { <<"3">>, <<"?">> }]

\* SpecFlags: joins with every (asHost, asSpectator) pair, in one room.
FlagInputs ==
  [IdentityInputs EXCEPT !.named = {"r1"},
                         !.names = { <<"A">>, <<" ", "b">> },
                         !.flags = BOOLEAN \X BOOLEAN]

SeqRange(s) == { s[i] : i \in 1..Len(s) }
RoomNames == SeqRange(RoomIds)

\* ------------------------------------------------------------------ text
\* String.prototype.trim over the alphabet of NameInputs: " " is whitespace.
RECURSIVE TrimLeft(_)
TrimLeft(s) == IF s # <<>> /\ Head(s) = " " THEN TrimLeft(Tail(s)) ELSE s

RECURSIVE TrimRight(_)
TrimRight(s) ==
  IF s # <<>> /\ s[Len(s)] = " " THEN TrimRight(SubSeq(s, 1, Len(s) - 1)) ELSE s

Trim(s) == TrimRight(TrimLeft(s))

\* String.prototype.toLowerCase over the alphabet of NameInputs.
LowerChar(c) == CASE c = "A" -> "a" [] c = "B" -> "b" [] OTHER -> c
ToLowerCase(s) == [i \in 1..Len(s) |-> LowerChar(s[i])]

\* ------------------------------------------------------------------ state
VARIABLES
  program,  \* the server program that runs: "part_000" or "server.js"
  srv,      \* the server: rooms, socketToClient, socket.io room membership
  open,     \* connections that are open
  closed,   \* connections that have closed
  minted,   \* how many participant ids the nanoid source has handed out
  out,      \* what the last event emitted, in order
  last,     \* the last event and its acknowledgment
  nEvents,  \* client events so far
  srv2,     \* SpecPair: the server of the second run
  out2,     \* SpecPair: what the last event emitted in the second run
  client    \* what the page behind each connection holds after its messages

vars == <<program, srv, open, closed, minted, out, last, nEvents, srv2, out2, client>>

\* DEFAULT_DECK; "cup" stands for the coffee-cup label.
DEFAULT_DECK == <<"0", "1", "2", "3", "5", "8", "13", "20", "40", "100", "?", "cup">>

\* A vote is null (NoVote) or a text (Voted(v)).
NoVote == <<>>
Voted(v) == <<v>>

\* The empty store: rooms = new Map(), socketToClient = new Map(); no socket
\* has joined a socket.io room.
EmptyServer ==
  [rooms |-> <<>>, socketToClient |-> <<>>, joined |-> [s \in SocketIds |-> {}]]

\* Index of clientId cid in the users object (0 if absent).  The users object
\* is kept as the sequence of its entries in the order Object.entries lists
\* them.
UserIndex(users, cid) ==
  IF \E i \in 1..Len(users) : users[i].clientId = cid
  THEN CHOOSE i \in 1..Len(users) : users[i].clientId = cid
  ELSE 0

HasUser(room, cid) == UserIndex(room.users, cid) # 0
GetUser(room, cid) == room.users[UserIndex(room.users, cid)]

\* Object.entries lists the keys that are integer indices first, in ascending
\* numeric order, then the other keys in insertion order.  IndexKeys are the
\* clientIds that are integer indices, ascending.
IndexKeys == <<"1", "2">>
IsIndexKey(k) == \E i \in 1..Len(IndexKeys) : IndexKeys[i] = k
KeyRank(k) == CHOOSE i \in 1..Len(IndexKeys) : IndexKeys[i] = k

\* room.users[u.clientId] = u for a key that is not in users yet: the place
\* the new entry takes in Object.entries.
PutUser(users, u) ==
  IF ~IsIndexKey(u.clientId) THEN Append(users, u)
  ELSE LET below == Cardinality({ i \in 1..Len(users) :
                                   /\ IsIndexKey(users[i].clientId)
                                   /\ KeyRank(users[i].clientId) < KeyRank(u.clientId) })
       IN SubSeq(users, 1, below) \o <<u>> \o SubSeq(users, below + 1, Len(users))

\* Keys of a Map or object kept as a function.
Has(map, k) == k \in DOMAIN map
MapSet(map, k, v) == [x \in (DOMAIN map) \cup {k} |-> IF x = k THEN v ELSE map[x]]
MapDelete(map, k) == [x \in (DOMAIN map) \ {k} |-> map[x]]

\* createRoom: a room with a copy of the deck, no story, not revealed, no users.
createRoom(st, id, deck) ==
  [st EXCEPT !.rooms = MapSet(@, id,
     [id |-> id, deck |-> deck, story |-> <<>>, revealed |-> FALSE, users |-> <<>>])]

\* Mutant of PublicUser: the vote itself goes out next to voted.
PublicUserLeaky(u) ==
  [clientId |-> u.clientId, name |-> u.name, voted |-> u.vote # NoVote,
   vote |-> u.vote, spectator |-> u.spectator, host |-> u.host]

\* roomStatePublic: the snapshot that is broadcast; votes appear as voted only.
PublicUser(u) ==
  [clientId |-> u.clientId, name |-> u.name, voted |-> u.vote # NoVote,
   spectator |-> u.spectator, host |-> u.host]

roomStatePublic(room) ==
  [id |-> room.id, deck |-> room.deck, story |-> room.story,
   revealed |-> room.revealed,
   users |-> [i \in 1..Len(room.users) |-> PublicUser(room.users[i])]]

\* io.to(roomId).emit(ev, data): one message to the sockets joined to roomId.
Emit(st, roomId, ev, data) ==
  [to |-> roomId, ev |-> ev, data |-> data,
   rcpt |-> { s \in SocketIds : roomId \in st.joined[s] }]

\* What a handler returns: the new store, the messages emitted, the
\* acknowledgment (<<>> when the handler calls no ack).
Reply(st, msgs, ack) == [st |-> st, out |-> msgs, ack |-> ack]
NoAck == <<>>
AckFail == << [ok |-> FALSE] >>
AckError(e) == << [ok |-> FALSE, error |-> e] >>
AckOk == << [ok |-> TRUE] >>

\* ------------------------------------------------- part_000: join_room
\* Mutant of taken: the comparison keeps the case.
takenExact(room, cid, raw) ==
  \E i \in 1..Len(room.users) :
    /\ room.users[i].clientId # cid
    /\ Trim(room.users[i].name) = raw

\* Mutant of taken: the joining identity's own entry counts too.
takenAnyone(room, cid, raw) ==
  \E i \in 1..Len(room.users) :
    ToLowerCase(Trim(room.users[i].name)) = ToLowerCase(raw)

\* taken: another clientId holds the name, compared trimmed and lower-cased.
taken(room, cid, raw) ==
  \E i \in 1..Len(room.users) :
    /\ room.users[i].clientId # cid
    /\ ToLowerCase(Trim(room.users[i].name)) = ToLowerCase(raw)

\* The user entry a first join creates.
NewUser(cid, raw, p, sid) ==
  [clientId |-> cid, name |-> raw, vote |-> NoVote, host |-> p.asHost,
   spectator |-> p.asSpectator, sockets |-> {sid}]

\* Mutant of RejoinedUser: the rejoin clears the vote.
RejoinedUserClearsVote(u, raw, p, sid) ==
  [u EXCEPT !.sockets = @ \cup {sid}, !.name = raw,
            !.spectator = p.asSpectator,
            !.host = IF p.asHost THEN TRUE ELSE @,
            !.vote = NoVote]

\* Mutant of RejoinedUser: host is what asHost says.
RejoinedUserDemotes(u, raw, p, sid) ==
  [u EXCEPT !.sockets = @ \cup {sid}, !.name = raw,
            !.spectator = p.asSpectator,
            !.host = p.asHost]

\* The user entry after a rejoin: the socket is added, name and spectator
\* are refreshed, host is set only when asHost is given.
RejoinedUser(u, raw, p, sid) ==
  [u EXCEPT !.sockets = @ \cup {sid}, !.name = raw,
            !.spectator = p.asSpectator,
            !.host = IF p.asHost THEN TRUE ELSE @]

\* "create or update stable user entry"
JoinUsers(room, cid, raw, p, sid) ==
  IF ~HasUser(room, cid)
  THEN PutUser(room.users, NewUser(cid, raw, p, sid))
  ELSE [room.users EXCEPT ![UserIndex(room.users, cid)] =
          RejoinedUser(@, raw, p, sid)]

\* Mutant of RevealedAfterJoin: the join leaves revealed as it was.
RevealedKept(room) == room.revealed

\* room.revealed after a successful join.
RevealedAfterJoin(room) == FALSE

\* Mutant of Joined: the join hides the votes of every room.
JoinedHidesAll(st, sid, p, cid, raw) ==
  LET room  == st.rooms[p.roomId]
      room2 == [room EXCEPT !.users = JoinUsers(room, cid, raw, p, sid),
                            !.revealed = RevealedAfterJoin(room)]
  IN [st EXCEPT !.socketToClient = MapSet(@, sid, cid),
                !.joined[sid] = @ \cup {p.roomId},
                !.rooms = [r \in DOMAIN st.rooms |->
                             IF r = p.roomId THEN room2
                             ELSE [st.rooms[r] EXCEPT !.revealed = FALSE]]]

\* The store after a successful join of socket sid as cid.
Joined(st, sid, p, cid, raw) ==
  LET room  == st.rooms[p.roomId]
      room2 == [room EXCEPT !.users = JoinUsers(room, cid, raw, p, sid),
                            !.revealed = RevealedAfterJoin(room)]
  IN [st EXCEPT !.socketToClient = MapSet(@, sid, cid),
                !.joined[sid] = @ \cup {p.roomId},
                !.rooms[p.roomId] = room2]

\* Mutant of Rejected: the socket is bound to the room before the checks.
RejectedBound(st, sid, error) ==
  Reply([st EXCEPT !.joined[sid] = @ \cup DOMAIN st.rooms], <<>>, AckError(error))

\* return ack?.({ ok: false, error }): nothing is stored, nothing is emitted.
Rejected(st, sid, error) == Reply(st, <<>>, AckError(error))

\* p = [roomId, name, asHost, asSpectator, clientId]; clientId is <<>> when
\* the client supplies none, and fresh is what nanoid(8) would then return.
join_room(st, sid, p, fresh) ==
  IF ~Has(st.rooms, p.roomId) THEN Rejected(st, sid, "ROOM_NOT_FOUND")
  ELSE
    LET room == st.rooms[p.roomId]
        raw  == Trim(p.name)
        cid  == IF p.clientId # <<>> THEN p.clientId[1] ELSE fresh
    IN IF raw = <<>> THEN Rejected(st, sid, "EMPTY_NAME")
       ELSE IF taken(room, cid, raw) THEN Rejected(st, sid, "NAME_TAKEN")
       ELSE LET st2 == Joined(st, sid, p, cid, raw)
                pub == roomStatePublic(st2.rooms[p.roomId])
            IN Reply(st2, << Emit(st2, p.roomId, "room_state", pub) >>,
                     << [ok |-> TRUE, room |-> pub, clientId |-> cid] >>)

\* ------------------------------------------------- part_000: set_story, set_deck
\* Length cap of a story.
StoryMax == 280

\* Mutant of Slice: the text is kept whole.
SliceNone(s, n) == s

\* slice(0, n) of a text, one UTF-16 code unit per element.
Slice(s, n) == SubSeq(s, 1, IF Len(s) < n THEN Len(s) ELSE n)

set_story(st, sid, p) ==
  IF ~Has(st.rooms, p.roomId) THEN Reply(st, <<>>, NoAck)
  ELSE LET st2 == [st EXCEPT !.rooms[p.roomId].story = Slice(p.story, StoryMax)]
       IN Reply(st2, << Emit(st2, p.roomId, "room_state",
                             roomStatePublic(st2.rooms[p.roomId])) >>, NoAck)

\* Mutant of set_deck: any deck argument is stored.
set_deckAnyDeck(st, sid, p) ==
  IF ~Has(st.rooms, p.roomId) THEN Reply(st, <<>>, NoAck)
  ELSE LET st2 == [st EXCEPT !.rooms[p.roomId].deck = p.deck.items]
       IN Reply(st2, << Emit(st2, p.roomId, "room_state",
                             roomStatePublic(st2.rooms[p.roomId])) >>, NoAck)

\* if (!room || !Array.isArray(deck) || !deck.length) return; the items are
\* texts already, so deck.map(String) keeps them.
set_deck(st, sid, p) ==
  IF ~Has(st.rooms, p.roomId) \/ ~p.deck.isArray \/ Len(p.deck.items) = 0
  THEN Reply(st, <<>>, NoAck)
  ELSE LET st2 == [st EXCEPT !.rooms[p.roomId].deck = p.deck.items]
       IN Reply(st2, << Emit(st2, p.roomId, "room_state",
                             roomStatePublic(st2.rooms[p.roomId])) >>, NoAck)

\* ------------------------------------------------- part_000: reveal payload
\* The itemized votes, one entry per user in insertion order.
RevealEntries(room) ==
  [i \in 1..Len(room.users) |->
     [id |-> room.users[i].clientId, name |-> room.users[i].name,
      vote |-> room.users[i].vote]]

\* parseFloat on a vote, for texts of spaces, signs, digits, the letters of
\* Infinity and symbols that are part of no number: leading spaces are
\* skipped, then an optional sign and either Infinity or the longest run of
\* digits is read and the rest is ignored.  The result is NaN (<<>>) for null
\* and for a text with no such prefix, and else <<x>> with x a finite number
\* (inf = 0, val its value) or an infinity (inf its sign).
Digits == <<"0", "1", "2", "3", "4", "5", "6", "7", "8", "9">>
IsDigit(c) == \E d \in 1..10 : Digits[d] = c
DigitValue(c) == (CHOOSE d \in 1..10 : Digits[d] = c) - 1

RECURSIVE DigitPrefix(_, _)
DigitPrefix(s, acc) ==
  IF s # <<>> /\ IsDigit(Head(s))
  THEN DigitPrefix(Tail(s), 10 * acc + DigitValue(Head(s)))
  ELSE acc

NaN == <<>>
Finite(n) == << [inf |-> 0, val |-> n] >>
Infinite(sign) == << [inf |-> sign, val |-> 0] >>
InfinityText == <<"I", "n", "f", "i", "n", "i", "t", "y">>
StartsWith(s, pre) == Len(s) >= Len(pre) /\ SubSeq(s, 1, Len(pre)) = pre

parseFloat(vote) ==
  IF vote = NoVote THEN NaN
  ELSE LET t    == TrimLeft(vote[1])
           neg  == t # <<>> /\ Head(t) = "-"
           body == IF t # <<>> /\ Head(t) \in {"-", "+"} THEN Tail(t) ELSE t
           sign == IF neg THEN -1 ELSE 1
       IN IF StartsWith(body, InfinityText) THEN Infinite(sign)
          ELSE IF body # <<>> /\ IsDigit(Head(body))
               THEN Finite(sign * DigitPrefix(body, 0))
               ELSE NaN

\* Number.isFinite and isNaN on what parseFloat returned.
IsFinite(x) == x # NaN /\ x[1].inf = 0
IsNaN(x) == x = NaN

RECURSIVE SumSeq(_)
SumSeq(s) == IF s = <<>> THEN 0 ELSE Head(s) + SumSeq(Tail(s))

\* numericVotes: the finite parses, in order.
NumericVotes(entries) ==
  LET parsed == [i \in 1..Len(entries) |-> parseFloat(entries[i].vote)]
      finite == SelectSeq(parsed, IsFinite)
  IN [i \in 1..Len(finite) |-> finite[i][1].val]

\* The average is null (<<>>) or the quotient sum / n, kept as the pair.
Average(nums) ==
  IF Len(nums) = 0 THEN <<>> ELSE << [sum |-> SumSeq(nums), n |-> Len(nums)] >>

computeRevealPayload(room) ==
  [votes |-> RevealEntries(room), average |-> Average(NumericVotes(RevealEntries(room)))]

\* ------------------------------------------------- part_000: cast_vote
\* String(value) of a text is the text.
StringOf(value) == value

\* Mutant of VoteMessages: the reveal result goes out whatever revealed is.
VoteMessagesAlways(st, roomId) ==
  LET room == st.rooms[roomId]
  IN << Emit(st, roomId, "room_state", roomStatePublic(room)),
        Emit(st, roomId, "reveal_result", computeRevealPayload(room)) >>

\* Mutant of VoteMessages: a vote sends the snapshot and nothing else.
VoteMessagesNever(st, roomId) ==
  << Emit(st, roomId, "room_state", roomStatePublic(st.rooms[roomId])) >>

\* The messages a vote emits: the snapshot, then the reveal result when the
\* room is already revealed.
VoteMessages(st, roomId) ==
  LET room == st.rooms[roomId]
  IN << Emit(st, roomId, "room_state", roomStatePublic(room)) >>
     \o (IF room.revealed
         THEN << Emit(st, roomId, "reveal_result", computeRevealPayload(room)) >>
         ELSE <<>>)

\* Mutant of cast_vote: a vote that is there is kept.
cast_voteFirstWins(st, sid, p) ==
  IF ~Has(st.rooms, p.roomId) THEN Reply(st, <<>>, AckFail)
  ELSE IF ~Has(st.socketToClient, sid)
          \/ ~HasUser(st.rooms[p.roomId], st.socketToClient[sid])
       THEN Reply(st, <<>>, AckFail)
  ELSE LET cid == st.socketToClient[sid]
           i   == UserIndex(st.rooms[p.roomId].users, cid)
           st2 == [st EXCEPT !.rooms[p.roomId].users[i].vote =
                               IF @ = NoVote THEN Voted(StringOf(p.value)) ELSE @]
       IN Reply(st2, VoteMessages(st2, p.roomId), AckOk)

cast_vote(st, sid, p) ==
  IF ~Has(st.rooms, p.roomId) THEN Reply(st, <<>>, AckFail)
  ELSE IF ~Has(st.socketToClient, sid)
          \/ ~HasUser(st.rooms[p.roomId], st.socketToClient[sid])
       THEN Reply(st, <<>>, AckFail)
  ELSE LET cid == st.socketToClient[sid]
           i   == UserIndex(st.rooms[p.roomId].users, cid)
           st2 == [st EXCEPT !.rooms[p.roomId].users[i].vote = Voted(StringOf(p.value))]
       IN Reply(st2, VoteMessages(st2, p.roomId), AckOk)

\* ------------------------------------------------- part_000: reveal, reset
\* Mutant of RevealMessages: the snapshot goes out alone.
RevealMessagesSnapshotOnly(st, roomId) ==
  << Emit(st, roomId, "room_state", roomStatePublic(st.rooms[roomId])) >>

\* The messages of reveal: the reveal result, then the snapshot.
RevealMessages(st, roomId) ==
  LET room == st.rooms[roomId]
  IN << Emit(st, roomId, "reveal_result", computeRevealPayload(room)),
        Emit(st, roomId, "room_state", roomStatePublic(room)) >>

\* Mutant of reveal: revealed is flipped.
revealToggles(st, sid, p) ==
  IF ~Has(st.rooms, p.roomId) THEN Reply(st, <<>>, AckFail)
  ELSE LET st2 == [st EXCEPT !.rooms[p.roomId].revealed = ~@]
       IN Reply(st2, RevealMessages(st2, p.roomId), AckOk)

reveal(st, sid, p) ==
  IF ~Has(st.rooms, p.roomId) THEN Reply(st, <<>>, AckFail)
  ELSE LET st2 == [st EXCEPT !.rooms[p.roomId].revealed = TRUE]
       IN Reply(st2, RevealMessages(st2, p.roomId), AckOk)

\* Mutant of ClearVotes: the votes stay.
ClearVotesNone(users) == users

\* Object.values(room.users).forEach(u => u.vote = null)
ClearVotes(users) == [i \in 1..Len(users) |-> [users[i] EXCEPT !.vote = NoVote]]

\* Mutant of reset: clearStory is not read.
resetKeepsStory(st, sid, p) ==
  IF ~Has(st.rooms, p.roomId) THEN Reply(st, <<>>, AckFail)
  ELSE LET room  == st.rooms[p.roomId]
           room2 == [room EXCEPT !.revealed = FALSE, !.users = ClearVotes(@)]
           st2   == [st EXCEPT !.rooms[p.roomId] = room2]
       IN Reply(st2, << Emit(st2, p.roomId, "room_state", roomStatePublic(room2)) >>,
                AckOk)

\* Mutant of reset: the snapshot is taken before the room is changed.
resetStale(st, sid, p) ==
  IF ~Has(st.rooms, p.roomId) THEN Reply(st, <<>>, AckFail)
  ELSE LET room  == st.rooms[p.roomId]
           room2 == [room EXCEPT !.revealed = FALSE,
                                 !.story = IF p.clearStory THEN <<>> ELSE @,
                                 !.users = ClearVotes(@)]
           st2   == [st EXCEPT !.rooms[p.roomId] = room2]
       IN Reply(st2, << Emit(st2, p.roomId, "room_state", roomStatePublic(room)) >>,
                AckOk)

reset(st, sid, p) ==
  IF ~Has(st.rooms, p.roomId) THEN Reply(st, <<>>, AckFail)
  ELSE LET room  == st.rooms[p.roomId]
           room2 == [room EXCEPT !.revealed = FALSE,
                                 !.story = IF p.clearStory THEN <<>> ELSE @,
                                 !.users = ClearVotes(@)]
           st2   == [st EXCEPT !.rooms[p.roomId] = room2]
       IN Reply(st2, << Emit(st2, p.roomId, "room_state", roomStatePublic(room2)) >>,
                AckOk)

\* ------------------------------------------------- part_000: throw
\* p.roomId is "" when the client names no room; id is what nanoid(6) returns
\* (s1, s2 are random seeds and are left out of the payload).
\* Mutant of throw: the thrower's connection is put into the named room.
throwJoins(st, sid, p, id) ==
  IF p.roomId = "" THEN Reply(st, <<>>, AckFail)
  ELSE LET st2 == [st EXCEPT !.joined[sid] = @ \cup {p.roomId}]
       IN Reply(st2, << Emit(st2, p.roomId, "throw", [id |-> id, item |-> p.item]) >>,
                AckOk)

throw(st, sid, p, id) ==
  IF p.roomId = "" THEN Reply(st, <<>>, AckFail)
  ELSE Reply(st, << Emit(st, p.roomId, "throw", [id |-> id, item |-> p.item]) >>, AckOk)

\* ------------------------------------------------- part_000: disconnect
\* The users of a room after socket sid of cid has gone: the socket leaves
\* the user's sockets, and a user with no socket left is deleted.
UsersAfterDisconnect(users, cid, sid) ==
  LET i == UserIndex(users, cid)
      u == [users[i] EXCEPT !.sockets = @ \ {sid}]
  IN IF u.sockets = {}
     THEN [j \in 1..(Len(users) - 1) |-> IF j < i THEN users[j] ELSE users[j + 1]]
     ELSE [users EXCEPT ![i] = u]

\* for (const [roomId, room] of rooms.entries()): the loop over the rooms in
\* insertion order, from the k-th room on.
RECURSIVE DisconnectRooms(_, _, _, _)
DisconnectRooms(st, cid, sid, k) ==
  IF k > Len(RoomIds) THEN Reply(st, <<>>, NoAck)
  ELSE LET roomId == RoomIds[k]
       IN IF Has(st.rooms, roomId) /\ HasUser(st.rooms[roomId], cid)
          THEN LET st2 == [st EXCEPT !.rooms[roomId].users =
                                       UsersAfterDisconnect(@, cid, sid)]
                   rest == DisconnectRooms(st2, cid, sid, k + 1)
               IN Reply(rest.st,
                        << Emit(st2, roomId, "room_state",
                                roomStatePublic(st2.rooms[roomId])) >> \o rest.out,
                        NoAck)
          ELSE DisconnectRooms(st, cid, sid, k + 1)

\* Mutant of disconnect: a room left with no participant is deleted.
disconnectDropsEmptyRooms(st, sid) ==
  LET left == [st EXCEPT !.joined[sid] = {}]
  IN IF ~Has(left.socketToClient, sid) THEN Reply(left, <<>>, NoAck)
     ELSE LET cid == left.socketToClient[sid]
              st1 == [left EXCEPT !.socketToClient = MapDelete(@, sid)]
              r   == DisconnectRooms(st1, cid, sid, 1)
              kept == { id \in DOMAIN r.st.rooms : r.st.rooms[id].users # <<>> }
          IN Reply([r.st EXCEPT !.rooms = [id \in kept |-> r.st.rooms[id]]],
                   r.out, NoAck)

\* The closing socket has left its socket.io rooms when the handler runs.
disconnect(st, sid) ==
  LET left == [st EXCEPT !.joined[sid] = {}]
  IN IF ~Has(left.socketToClient, sid) THEN Reply(left, <<>>, NoAck)
     ELSE LET cid == left.socketToClient[sid]
              st1 == [left EXCEPT !.socketToClient = MapDelete(@, sid)]
          IN DisconnectRooms(st1, cid, sid, 1)

\* ------------------------------------------------- server/server.js
\* DEFAULT_DECK of server/server.js; "cup" stands for the coffee-cup label.
SRV_DEFAULT_DECK == <<"0", "1", "2", "3", "5", "8", "13", "21", "34", "55", "?", "cup">>

\* publicState; the key of each entry of users is kept as clientId.
SrvPublicUser(u) ==
  [clientId |-> u.clientId, name |-> u.name, voted |-> u.vote # NoVote,
   spectator |-> u.spectator, host |-> u.host]

publicState(room) ==
  [id |-> room.id, deck |-> room.deck, story |-> room.story,
   revealed |-> room.revealed,
   users |-> [i \in 1..Len(room.users) |-> SrvPublicUser(room.users[i])]]

\* nums: filter(n => !isNaN(n)) keeps what parseFloat parsed, the infinities
\* too.
SrvNums(entries) ==
  LET parsed == [i \in 1..Len(entries) |-> parseFloat(entries[i].vote)]
      nums   == SelectSeq(parsed, LAMBDA x : ~IsNaN(x))
  IN [i \in 1..Len(nums) |-> nums[i][1]]

\* avg: null (<<>>) with no number; a sum that holds both infinities is NaN,
\* one that holds an infinity is that infinity, and else it is sum / n.
SrvAverage(nums) ==
  LET signs == { nums[i].inf : i \in 1..Len(nums) }
  IN IF Len(nums) = 0 THEN <<>>
     ELSE IF {1, -1} \subseteq signs THEN << [nan |-> TRUE] >>
     ELSE IF 1 \in signs THEN << [inf |-> 1] >>
     ELSE IF -1 \in signs THEN << [inf |-> -1] >>
     ELSE << [sum |-> SumSeq([i \in 1..Len(nums) |-> nums[i].val]), n |-> Len(nums)] >>

computeReveal(room) ==
  [votes |-> RevealEntries(room), average |-> SrvAverage(SrvNums(RevealEntries(room)))]

\* The user entry a first join creates: the name is stored as sent.
SrvNewUser(cid, p) ==
  [clientId |-> cid, name |-> p.name, vote |-> NoVote,
   spectator |-> p.asSpectator, host |-> p.asHost]

\* A join of an identity that is in the room leaves its entry as it is.
SrvJoinUsers(room, cid, p) ==
  IF ~HasUser(room, cid) THEN PutUser(room.users, SrvNewUser(cid, p)) ELSE room.users

srv_join_room(st, sid, p, fresh) ==
  IF ~Has(st.rooms, p.roomId) THEN Reply(st, <<>>, AckError("ROOM_NOT_FOUND"))
  ELSE
    LET room  == st.rooms[p.roomId]
        cid   == IF p.clientId # <<>> THEN p.clientId[1] ELSE fresh
        room2 == [room EXCEPT !.users = SrvJoinUsers(room, cid, p),
                              !.revealed = FALSE]
        st2   == [st EXCEPT !.socketToClient = MapSet(@, sid, cid),
                            !.joined[sid] = @ \cup {p.roomId},
                            !.rooms[p.roomId] = room2]
    IN Reply(st2, << Emit(st2, p.roomId, "room_state", publicState(room2)) >>, AckOk)

\* No listener is registered for set_story and set_deck: the event is dropped.
srv_unhandled(st, sid, p) == Reply(st, <<>>, NoAck)

SrvVoteMessages(st, roomId) ==
  LET room == st.rooms[roomId]
  IN << Emit(st, roomId, "room_state", publicState(room)) >>
     \o (IF room.revealed
         THEN << Emit(st, roomId, "reveal_result", computeReveal(room)) >>
         ELSE <<>>)

\* socketToClient.get(socket.id) is undefined for a socket that has no
\* clientId, and room.users[undefined] reads the key "undefined".
SrvClientOf(st, sid) ==
  IF Has(st.socketToClient, sid) THEN st.socketToClient[sid] ELSE "undefined"

\* Mutant of srv_cast_vote: a spectator's vote is stored too.
srv_cast_voteSpectators(st, sid, p) ==
  IF \/ ~Has(st.rooms, p.roomId)
     \/ ~HasUser(st.rooms[p.roomId], SrvClientOf(st, sid))
  THEN Reply(st, <<>>, NoAck)
  ELSE LET cid == SrvClientOf(st, sid)
           i   == UserIndex(st.rooms[p.roomId].users, cid)
           st2 == [st EXCEPT !.rooms[p.roomId].users[i].vote = Voted(p.value)]
       IN Reply(st2, SrvVoteMessages(st2, p.roomId), NoAck)

\* The vote is stored as sent; a spectator's vote is dropped.
srv_cast_vote(st, sid, p) ==
  IF \/ ~Has(st.rooms, p.roomId)
     \/ ~HasUser(st.rooms[p.roomId], SrvClientOf(st, sid))
  THEN Reply(st, <<>>, NoAck)
  ELSE LET cid == SrvClientOf(st, sid)
           i   == UserIndex(st.rooms[p.roomId].users, cid)
       IN IF st.rooms[p.roomId].users[i].spectator THEN Reply(st, <<>>, NoAck)
          ELSE LET st2 == [st EXCEPT !.rooms[p.roomId].users[i].vote = Voted(p.value)]
               IN Reply(st2, SrvVoteMessages(st2, p.roomId), NoAck)

srv_reveal(st, sid, p) ==
  IF ~Has(st.rooms, p.roomId) THEN Reply(st, <<>>, NoAck)
  ELSE LET st2  == [st EXCEPT !.rooms[p.roomId].revealed = TRUE]
           room == st2.rooms[p.roomId]
       IN Reply(st2, << Emit(st2, p.roomId, "reveal_result", computeReveal(room)),
                        Emit(st2, p.roomId, "room_state", publicState(room)) >>, NoAck)

\* reset of server/server.js reads no clearStory.
srv_reset(st, sid, p) ==
  IF ~Has(st.rooms, p.roomId) THEN Reply(st, <<>>, NoAck)
  ELSE LET room  == st.rooms[p.roomId]
           room2 == [room EXCEPT !.revealed = FALSE, !.users = ClearVotes(@)]
           st2   == [st EXCEPT !.rooms[p.roomId] = room2]
       IN Reply(st2, << Emit(st2, p.roomId, "room_state", publicState(room2)) >>, NoAck)

srv_throw(st, sid, p, id) ==
  Reply(st, << Emit(st, p.roomId, "throw", [id |-> id, item |-> p.item]) >>, NoAck)

\* disconnect forgets the socket's clientId and nothing else.
srv_disconnect(st, sid) ==
  LET left == [st EXCEPT !.joined[sid] = {}]
  IN Reply([left EXCEPT !.socketToClient = MapDelete(@, sid)], <<>>, NoAck)

\* ------------------------------------------------------------------ events
\* The ids minted so far may come back as a client-supplied clientId.
MintedIds == { MintIds[i] : i \in 1..minted }
ClientIdInputs(In) == { <<>> } \cup { <<c>> : c \in In.clients \cup MintedIds }

JoinInputs(In) ==
  { [roomId |-> r, name |-> n, asHost |-> f[1], asSpectator |-> f[2], clientId |-> c] :
      r \in In.named, n \in In.names, f \in In.flags, c \in ClientIdInputs(In) }

\* join_room calls nanoid when it comes to choose cid with no clientId given:
\* past the name check in part_000, past the room check in server/server.js.
MintsId(st, p) ==
  /\ Has(st.rooms, p.roomId)
  /\ p.clientId = <<>>
  /\ program = "part_000" => Trim(p.name) # <<>>

FreshId == IF minted < Len(MintIds) THEN MintIds[minted + 1] ELSE ""

\* socket.on(...): the listener each server registers for an event.
\* POST /api/rooms with body deck (<<>>: no deck in the body, <<d>>: the
\* list d): part_000 passes it to createRoom, whose default stands in for a
\* deck that is undefined; server/server.js reads no body.
OnCreateRoom(st, id, deck) ==
  IF program = "part_000"
  THEN createRoom(st, id, IF deck = <<>> THEN DEFAULT_DECK ELSE deck[1])
  ELSE createRoom(st, id, SRV_DEFAULT_DECK)
OnJoinRoom(st, sid, p, fresh) ==
  IF program = "part_000" THEN join_room(st, sid, p, fresh)
  ELSE srv_join_room(st, sid, p, fresh)
OnSetStory(st, sid, p) ==
  IF program = "part_000" THEN set_story(st, sid, p) ELSE srv_unhandled(st, sid, p)
OnSetDeck(st, sid, p) ==
  IF program = "part_000" THEN set_deck(st, sid, p) ELSE srv_unhandled(st, sid, p)
OnCastVote(st, sid, p) ==
  IF program = "part_000" THEN cast_vote(st, sid, p) ELSE srv_cast_vote(st, sid, p)
OnReveal(st, sid, p) ==
  IF program = "part_000" THEN reveal(st, sid, p) ELSE srv_reveal(st, sid, p)
OnReset(st, sid, p) ==
  IF program = "part_000" THEN reset(st, sid, p) ELSE srv_reset(st, sid, p)
OnThrow(st, sid, p, id) ==
  IF program = "part_000" THEN throw(st, sid, p, id) ELSE srv_throw(st, sid, p, id)
OnDisconnect(st, sid) ==
  IF program = "part_000" THEN disconnect(st, sid) ELSE srv_disconnect(st, sid)

\* ------------------------------------------------------------------ client
\* What the page behind a connection holds of a room: revealed and
\* revealResult (<<>> is null), as useState leaves them at first.
ClientStart == [revealed |-> FALSE, revealResult |-> <<>>]

\* Mutant of onRoomState: the reveal result is never cleared.
onRoomStateKeepsResult(c, rs) ==
  [revealed |-> rs.revealed, revealResult |-> c.revealResult]

\* socket.on('room_state'): revealed follows the snapshot, and a snapshot that
\* is not revealed clears the reveal result.
onRoomState(c, rs) ==
  [revealed |-> rs.revealed,
   revealResult |-> IF ~rs.revealed THEN <<>> ELSE c.revealResult]

\* socket.on('reveal_result'): revealed is set and the payload is kept.
onRevealResult(c, payload) == [revealed |-> TRUE, revealResult |-> << payload >>]

\* The listener of the client for one message.
Listen(c, msg) ==
  IF msg.ev = "room_state" THEN onRoomState(c, msg.data)
  ELSE IF msg.ev = "reveal_result" THEN onRevealResult(c, msg.data)
  ELSE c

\* The clients after the messages msgs, from the k-th on, have reached their
\* recipients in the order they were sent.
RECURSIVE Deliver(_, _, _)
Deliver(cl, msgs, k) ==
  IF k > Len(msgs) THEN cl
  ELSE Deliver([s \in SocketIds |->
                  IF s \in msgs[k].rcpt THEN Listen(cl[s], msgs[k]) ELSE cl[s]],
               msgs, k + 1)

InitWith(In) ==
  /\ program \in In.programs
  /\ srv = EmptyServer
  /\ open = {}
  /\ closed = {}
  /\ minted = 0
  /\ out = <<>>
  /\ last = [op |-> "init", sid |-> "", roomId |-> "", ack |-> NoAck]
  /\ nEvents = 0
  /\ srv2 = EmptyServer
  /\ out2 = <<>>
  /\ client = [s \in SocketIds |-> ClientStart]

\* One listener run: r is what it returned on the server, r2 what it returned
\* on the server of the second run.
Do(In, op, sid, roomId, r, r2) ==
  /\ srv' = r.st
  /\ out' = r.out
  /\ last' = [op |-> op, sid |-> sid, roomId |-> roomId, ack |-> r.ack]
  /\ client' = Deliver(client, r.out, 1)
  /\ IF In.pair THEN srv2' = r2.st /\ out2' = r2.out ELSE UNCHANGED <<srv2, out2>>
  /\ UNCHANGED program

Counted(In) == nEvents < In.events /\ nEvents' = nEvents + 1

\* POST /api/rooms: nanoid(8) names the room.
CreateRoom(In) ==
  /\ \E k \in 1..In.rooms, deck \in In.roomDecks :
       /\ DOMAIN srv.rooms = { RoomIds[j] : j \in 1..(k - 1) }
       /\ Do(In, "create_room", "", RoomIds[k],
             Reply(OnCreateRoom(srv, RoomIds[k], deck), <<>>, NoAck),
             Reply(OnCreateRoom(srv2, RoomIds[k], deck), <<>>, NoAck))
  /\ UNCHANGED <<open, closed, minted, nEvents>>

\* io.on('connection'): a new transport connection.
Connect(In) ==
  /\ \E sid \in In.sockets \ (open \cup closed) :
       /\ open' = open \cup {sid}
       /\ Do(In, "connection", sid, "", Reply(srv, <<>>, NoAck), Reply(srv2, <<>>, NoAck))
  /\ UNCHANGED <<closed, minted, nEvents>>

JoinRoom(In) ==
  /\ Counted(In)
  /\ \E sid \in open, p \in JoinInputs(In) :
       /\ MintsId(srv, p) => minted < Len(MintIds)
       /\ minted' = IF MintsId(srv, p) THEN minted + 1 ELSE minted
       /\ Do(In, "join_room", sid, p.roomId,
             OnJoinRoom(srv, sid, p, FreshId), OnJoinRoom(srv2, sid, p, FreshId))
  /\ UNCHANGED <<open, closed>>

SetStory(In) ==
  /\ Counted(In)
  /\ \E sid \in open, p \in [roomId : In.named, story : In.stories] :
       Do(In, "set_story", sid, p.roomId,
          OnSetStory(srv, sid, p), OnSetStory(srv2, sid, p))
  /\ UNCHANGED <<open, closed, minted>>

SetDeck(In) ==
  /\ Counted(In)
  /\ \E sid \in open, p \in [roomId : In.named, deck : In.decks] :
       Do(In, "set_deck", sid, p.roomId,
          OnSetDeck(srv, sid, p), OnSetDeck(srv2, sid, p))
  /\ UNCHANGED <<open, closed, minted>>

\* The second run votes v2 where the first votes p.value.
CastVote(In) ==
  /\ Counted(In)
  /\ \E sid \in open, p \in [roomId : In.named, value : In.votes] :
       \E v2 \in (IF In.pair THEN In.votes ELSE {p.value}) :
         Do(In, "cast_vote", sid, p.roomId,
            OnCastVote(srv, sid, p),
            OnCastVote(srv2, sid, [p EXCEPT !.value = v2]))
  /\ UNCHANGED <<open, closed, minted>>

Reveal(In) ==
  /\ Counted(In)
  /\ \E sid \in open, p \in [roomId : In.named] :
       Do(In, "reveal", sid, p.roomId,
          OnReveal(srv, sid, p), OnReveal(srv2, sid, p))
  /\ UNCHANGED <<open, closed, minted>>

Reset(In) ==
  /\ Counted(In)
  /\ \E sid \in open, p \in [roomId : In.named, clearStory : BOOLEAN] :
       Do(In, "reset", sid, p.roomId,
          OnReset(srv, sid, p), OnReset(srv2, sid, p))
  /\ UNCHANGED <<open, closed, minted>>

Throw(In) ==
  /\ Counted(In)
  /\ \E sid \in open, p \in [roomId : In.named \cup {""}, item : {"x"}] :
       Do(In, "throw", sid, p.roomId,
          OnThrow(srv, sid, p, "t"), OnThrow(srv2, sid, p, "t"))
  /\ UNCHANGED <<open, closed, minted>>

Disconnect(In) ==
  /\ Counted(In)
  /\ \E sid \in open :
       /\ open' = open \ {sid}
       /\ closed' = closed \cup {sid}
       /\ Do(In, "disconnect", sid, "",
             OnDisconnect(srv, sid), OnDisconnect(srv2, sid))
  /\ UNCHANGED <<minted>>

NextWith(In) ==
  \/ CreateRoom(In)
  \/ Connect(In)
  \/ JoinRoom(In)
  \/ SetStory(In)
  \/ SetDeck(In)
  \/ CastVote(In)
  \/ Reveal(In)
  \/ Reset(In)
  \/ Throw(In)
  \/ Disconnect(In)

Init == InitWith(IdentityInputs)
Next == NextWith(IdentityInputs)
Spec == Init /\ [][Next]_vars

InitPair == InitWith(PairInputs)
NextPair == NextWith(PairInputs)
SpecPair == InitPair /\ [][NextPair]_vars

InitFlags == InitWith(FlagInputs)
NextFlags == NextWith(FlagInputs)
SpecFlags == InitFlags /\ [][NextFlags]_vars

\* SpecStory: set_story with a short text and with texts of StoryMax and of
\* StoryMax + 1 code units, in one room.
LongText(n) == [i \in 1..n |-> IF i = n THEN "z" ELSE "x"]
StoryInputs ==
  [IdentityInputs EXCEPT !.named = {"r1"},
                         !.names = { <<"A">> },
                         !.events = MaxEvents - 1,
                         !.stories = { <<"s">>, LongText(StoryMax), LongText(StoryMax + 1) }]

InitStory == InitWith(StoryInputs)
NextStory == NextWith(StoryInputs)
SpecStory == InitStory /\ [][NextStory]_vars

\* SpecRooms: two rooms, one identity that joins either from two sockets.
RoomsInputs ==
  [IdentityInputs EXCEPT !.rooms = 2,
                         !.events = MaxEvents - 1,
                         !.names = { <<"A">> }]

InitRooms == InitWith(RoomsInputs)
NextRooms == NextWith(RoomsInputs)
SpecRooms == InitRooms /\ [][NextRooms]_vars

\* SpecDecks: rooms created with and without a deck of their own, and
\* set_deck with an empty list, a non-empty list and a value that is not a
\* list, in one room.
DeckInputs ==
  [IdentityInputs EXCEPT !.named = {"r1"},
                         !.names = { <<"A">> },
                         !.roomDecks = { <<>>, << <<>> >>, << <<"7">> >> },
                         !.decks = { ListOf(<<>>), ListOf(<<"1", "2">>),
                                     NotList(<<"1", "2">>) }]

InitDecks == InitWith(DeckInputs)
NextDecks == NextWith(DeckInputs)
SpecDecks == InitDecks /\ [][NextDecks]_vars

\* SpecKeys: clients that supply clientIds which are integer indices, or the
\* text undefined, in one room.
KeyInputs ==
  [IdentityInputs EXCEPT !.named = {"r1"},
                         !.names = { <<"A">>, <<"B">> },
                         !.clients = {"1", "2", "undefined"}]

InitKeys == InitWith(KeyInputs)
NextKeys == NextWith(KeyInputs)
SpecKeys == InitKeys /\ [][NextKeys]_vars

\* SpecReveal: the reveal payload of rooms of up to three voters with every
\* combination of votes.  The rooms are built with the listeners: voter i
\* joins from socket i under its own clientId and name, and casts its vote.
VoterIds == <<"a", "b", "c">>
VoterSockets == <<"s1", "s2", "s3">>
VoterNames == << <<"A">>, <<"B">>, <<"C">> >>
VoteTexts == { <<"3">>, <<"8">>, <<"?">>, <<"cup">>, <<"1", "3">>, InfinityText }
VoteOptions == {NoVote} \cup { Voted(t) : t \in VoteTexts }

RevealInputs ==
  [IdentityInputs EXCEPT !.events = MaxEvents - 2,
                         !.named = {"r1"},
                         !.sockets = SeqRange(VoterSockets),
                         !.clients = SeqRange(VoterIds),
                         !.votes = { <<"8">>, <<"?">> }]

RECURSIVE JoinVoters(_, _)
JoinVoters(st, k) ==
  IF k = 0 THEN st
  ELSE OnJoinRoom(JoinVoters(st, k - 1), VoterSockets[k],
                  [roomId |-> "r1", name |-> VoterNames[k], asHost |-> FALSE,
                   asSpectator |-> FALSE, clientId |-> <<VoterIds[k]>>], "").st

RECURSIVE CastVotes(_, _, _)
CastVotes(st, k, vs) ==
  IF k = 0 THEN st
  ELSE LET before == CastVotes(st, k - 1, vs)
       IN IF vs[k] = NoVote THEN before
          ELSE OnCastVote(before, VoterSockets[k],
                          [roomId |-> "r1", value |-> vs[k][1]]).st

VotedRoom(k, vs) ==
  CastVotes(JoinVoters(OnCreateRoom(EmptyServer, "r1", <<>>), k), k, vs)

InitReveal ==
  /\ program \in RevealInputs.programs
  /\ \E k \in 0..Len(VoterIds) :
       /\ open = { VoterSockets[i] : i \in 1..k }
       /\ \E vs \in [1..k -> VoteOptions] : srv = VotedRoom(k, vs)
  /\ closed = {}
  /\ minted = 0
  /\ out = <<>>
  /\ last = [op |-> "init", sid |-> "", roomId |-> "", ack |-> NoAck]
  /\ nEvents = 0
  /\ srv2 = EmptyServer
  /\ out2 = <<>>
  /\ client = [s \in SocketIds |-> ClientStart]

NextReveal ==
  \/ CastVote(RevealInputs)
  \/ Reveal(RevealInputs)
  \/ Reset(RevealInputs)

SpecReveal == InitReveal /\ [][NextReveal]_vars

\* ------------------------------------------------------------------ claims
IsPart000 == program = "part_000"
Inputs == IdentityInputs

\* Two display names are the same name: equal after trimming, ignoring case.
SameName(n1, n2) == ToLowerCase(Trim(n1)) = ToLowerCase(Trim(n2))

\* A participant of the room other than cid holds the name.
OtherHolds(room, cid, name) ==
  \E i \in 1..Len(room.users) :
    room.users[i].clientId # cid /\ SameName(room.users[i].name, name)

\* The join_room requests the server can get in the current state.
JoinCallsOf(In) ==
  { c \in open \X JoinInputs(In) : MintsId(srv, c[2]) => minted < Len(MintIds) }
JoinCalls == JoinCallsOf(Inputs)

\* The identity a join_room request is made under.
JoinCid(p) == IF p.clientId # <<>> THEN p.clientId[1] ELSE FreshId

\* A join_room request from an identity that is a participant of the room.
IsRejoin(p) ==
  /\ p.clientId # <<>>
  /\ Has(srv.rooms, p.roomId)
  /\ HasUser(srv.rooms[p.roomId], p.clientId[1])

Acked(l) == l.ack # NoAck
AckedOk(l) == Acked(l) /\ l.ack[1].ok
AckedError(l, e) == l.ack = AckError(e)

\* The snapshot the running program broadcasts for a room.
Snapshot(room) ==
  IF IsPart000 THEN roomStatePublic(room) ELSE publicState(room)

SnapshotsOf(msgs) == SelectSeq(msgs, LAMBDA m : m.ev = "room_state")

\* ---- C1
\* A cast_vote that was applied: it emitted the snapshot.
VoteApplied == last'.op = "cast_vote" /\ out' # <<>>

\* The snapshot after an applied vote is the snapshot before it with the
\* caster's voted flag set.
VoteFlipsVotedOnly ==
  LET room == srv.rooms[last'.roomId]
      i    == UserIndex(room.users, srv.socketToClient[last'.sid])
  IN out'[1].data = [Snapshot(room) EXCEPT !.users[i].voted = TRUE]

\* C1: two runs of the same events that differ only in the values voted
\* broadcast the same room_state snapshots to the same sockets, and a vote
\* changes nothing in the snapshot but the caster's voted flag.
C1_SnapshotsIgnoreVoteValues ==
  [][ /\ SnapshotsOf(out') = SnapshotsOf(out2')
      /\ VoteApplied => VoteFlipsVotedOnly ]_vars

\* Both runs have just applied a vote in a room that is not revealed, and the
\* caster's votes differ between the runs.
C1_Witness ==
  /\ IsPart000
  /\ last.op = "cast_vote" /\ out # <<>> /\ out2 # <<>>
  /\ ~srv.rooms[last.roomId].revealed
  /\ \E i \in 1..Len(srv.rooms[last.roomId].users) :
       /\ srv.rooms[last.roomId].users[i].clientId = srv.socketToClient[last.sid]
       /\ srv.rooms[last.roomId].users[i].vote # srv2.rooms[last.roomId].users[i].vote

\* ---- C2
\* A message that carries raw votes: a reveal_result, or a snapshot whose
\* user entries have a vote field.
CarriesVotes(m) ==
  \/ m.ev = "reveal_result"
  \/ /\ m.ev = "room_state"
     /\ \E i \in 1..Len(m.data.users) : "vote" \in DOMAIN m.data.users[i]

\* C2: every message of the last event that carries raw votes went to a room
\* whose revealed flag is true, and the snapshot of a join acknowledgment
\* carries none.
C2_VotesOnlyWhenRevealed ==
  /\ \A k \in 1..Len(out) :
       CarriesVotes(out[k]) =>
         Has(srv.rooms, out[k].to) /\ srv.rooms[out[k].to].revealed
  /\ (Acked(last) /\ "room" \in DOMAIN last.ack[1]) =>
       \A i \in 1..Len(last.ack[1].room.users) :
         "vote" \notin DOMAIN last.ack[1].room.users[i]

\* A vote cast in a revealed room has sent a reveal_result with a vote in it.
C2_Witness ==
  /\ IsPart000
  /\ last.op = "cast_vote"
  /\ \E k \in 1..Len(out) :
       /\ out[k].ev = "reveal_result"
       /\ \E i \in 1..Len(out[k].data.votes) : out[k].data.votes[i].vote # NoVote

\* ---- C3
\* C3: after a successful join_room the room is not revealed.
C3_JoinClearsRevealed ==
  (last.op = "join_room" /\ AckedOk(last)) => ~srv.rooms[last.roomId].revealed

\* A revealed room in which a participant's rejoin and a new identity's join
\* both succeed, each leaving the room not revealed.
C3_Witness ==
  /\ IsPart000
  /\ nEvents < MaxEvents
  /\ \E c \in JoinCalls, d \in JoinCalls :
       LET r == OnJoinRoom(srv, c[1], c[2], FreshId)
           q == OnJoinRoom(srv, d[1], d[2], FreshId)
       IN /\ IsRejoin(c[2]) /\ ~IsRejoin(d[2]) /\ d[2].roomId = c[2].roomId
          /\ srv.rooms[c[2].roomId].revealed
          /\ r.ack # NoAck /\ r.ack[1].ok /\ ~r.st.rooms[c[2].roomId].revealed
          /\ q.ack # NoAck /\ q.ack[1].ok /\ ~q.st.rooms[c[2].roomId].revealed

\* ---- C4
\* C4 (part_000): a join_room under a name that another participant of the
\* room holds is rejected with NAME_TAKEN, for a new identity and for a rejoin.
C4_TakenNameRejected ==
  IsPart000 =>
    \A c \in JoinCalls :
      (Has(srv.rooms, c[2].roomId)
         /\ OtherHolds(srv.rooms[c[2].roomId], JoinCid(c[2]), c[2].name))
      => join_room(srv, c[1], c[2], FreshId).ack = AckError("NAME_TAKEN")

\* A participant has just been refused, on a rejoin, the name another
\* participant holds.
C4_Witness ==
  /\ IsPart000
  /\ last.op = "join_room" /\ AckedError(last, "NAME_TAKEN")
  /\ \E c \in JoinCalls :
       /\ c[1] = last.sid /\ c[2].roomId = last.roomId /\ IsRejoin(c[2])
       /\ OtherHolds(srv.rooms[c[2].roomId], JoinCid(c[2]), c[2].name)
       /\ ~SameName(GetUser(srv.rooms[c[2].roomId], JoinCid(c[2])).name, c[2].name)

\* ---- C5
\* C5 as stated: a join_room from an identity that is a participant of the
\* room succeeds whatever name it supplies.
C5_RejoinAlwaysSucceeds ==
  IsPart000 =>
    \A c \in JoinCalls :
      IsRejoin(c[2]) => join_room(srv, c[1], c[2], FreshId).ack[1].ok

\* C5 amended (part_000): a join_room from an identity that is a participant
\* of the room succeeds exactly when the trimmed name is not empty and no other
\* participant holds it; it fails EMPTY_NAME on an empty name and NAME_TAKEN
\* on a name another participant holds.
C5_RejoinSucceedsUnlessNameRefused ==
  IsPart000 =>
    \A c \in JoinCalls :
      IsRejoin(c[2]) =>
        LET ack == join_room(srv, c[1], c[2], FreshId).ack
        IN IF Trim(c[2].name) = <<>> THEN ack = AckError("EMPTY_NAME")
           ELSE IF OtherHolds(srv.rooms[c[2].roomId], JoinCid(c[2]), c[2].name)
                THEN ack = AckError("NAME_TAKEN")
                ELSE ack[1].ok

\* A participant rejoins with success under its own name typed another way,
\* in a room that has another participant.
C5_Witness ==
  /\ IsPart000
  /\ nEvents < MaxEvents
  /\ \E c \in JoinCalls :
       /\ IsRejoin(c[2])
       /\ Len(srv.rooms[c[2].roomId].users) = 2
       /\ GetUser(srv.rooms[c[2].roomId], JoinCid(c[2])).name # Trim(c[2].name)
       /\ join_room(srv, c[1], c[2], FreshId).ack[1].ok

\* ---- C6
\* C6: no two participants of a room have the same name.
C6_NamesUnique ==
  \A r \in DOMAIN srv.rooms :
    \A i, j \in 1..Len(srv.rooms[r].users) :
      i # j => ~SameName(srv.rooms[r].users[i].name, srv.rooms[r].users[j].name)

\* C6 on part_000 alone.
C6_NamesUniquePart000 == IsPart000 => C6_NamesUnique

\* ---- C7
\* The open connections bound to a participant of room r: the open sockets of
\* its sockets set (part_000); the open sockets that joined r and map to its
\* clientId (server/server.js, which keeps no sockets set).
OpenConnections(r, u) ==
  IF IsPart000 THEN u.sockets \cap open
  ELSE { s \in open : /\ r \in srv.joined[s]
                      /\ Has(srv.socketToClient, s)
                      /\ srv.socketToClient[s] = u.clientId }

\* C7 on part_000: every participant of every room has an open connection.
C7_EveryParticipantConnected ==
  IsPart000 =>
    \A r \in DOMAIN srv.rooms :
      \A i \in 1..Len(srv.rooms[r].users) :
        OpenConnections(r, srv.rooms[r].users[i]) # {}

\* C7 on server/server.js.
C7_EveryParticipantConnectedSrv ==
  ~IsPart000 =>
    \A r \in DOMAIN srv.rooms :
      \A i \in 1..Len(srv.rooms[r].users) :
        OpenConnections(r, srv.rooms[r].users[i]) # {}

\* ---- C8
\* What the participant's entry shows of it besides its connections.
Profile(u) ==
  [clientId |-> u.clientId, name |-> u.name, vote |-> u.vote, host |-> u.host,
   spectator |-> u.spectator]

\* C8 (part_000): when an open connection of a participant closes, the
\* participant stays with name, vote and flags unchanged if another of its
\* connections is open, and is removed if that was its last open connection.
C8_DisconnectKeepsOrRemoves ==
  [][ (IsPart000 /\ last'.op = "disconnect") =>
        \A r \in DOMAIN srv.rooms :
          \A i \in 1..Len(srv.rooms[r].users) :
            LET u == srv.rooms[r].users[i]
            IN last'.sid \in u.sockets =>
                 IF u.sockets \cap open = {last'.sid}
                 THEN ~HasUser(srv'.rooms[r], u.clientId)
                 ELSE /\ HasUser(srv'.rooms[r], u.clientId)
                      /\ Profile(GetUser(srv'.rooms[r], u.clientId)) = Profile(u) ]_vars

\* C8 for the runs in which every socket is bound to the identity whose
\* sockets set it is in: there the participant is kept or removed as stated.
C8_DisconnectOfBoundConnection ==
  [][ (/\ IsPart000 /\ last'.op = "disconnect"
       /\ \A r \in DOMAIN srv.rooms : \A i \in 1..Len(srv.rooms[r].users) :
            \A s \in srv.rooms[r].users[i].sockets :
              /\ Has(srv.socketToClient, s)
              /\ srv.socketToClient[s] = srv.rooms[r].users[i].clientId) =>
        \A r \in DOMAIN srv.rooms :
          \A i \in 1..Len(srv.rooms[r].users) :
            LET u == srv.rooms[r].users[i]
            IN last'.sid \in u.sockets =>
                 IF u.sockets \cap open = {last'.sid}
                 THEN ~HasUser(srv'.rooms[r], u.clientId)
                 ELSE /\ HasUser(srv'.rooms[r], u.clientId)
                      /\ Profile(GetUser(srv'.rooms[r], u.clientId)) = Profile(u) ]_vars

\* ---- C9
\* C9: a join_room that is refused leaves the store (rooms, participants and
\* their sockets, socketToClient, socket.io room membership) as it was and
\* emits nothing.
C9_FailedJoinChangesNothing ==
  [][ (last'.op = "join_room" /\ ~AckedOk(last')) => (srv' = srv /\ out' = <<>>) ]_vars

\* A join has just been refused NAME_TAKEN in a room with a participant.
C9_Witness ==
  /\ IsPart000
  /\ last.op = "join_room" /\ AckedError(last, "NAME_TAKEN")
  /\ srv.rooms[last.roomId].users # <<>>
  /\ out = <<>>

\* ---- C10
\* The outcome the order of checks gives a join_room request.
ExpectedJoinAck(p) ==
  IF ~Has(srv.rooms, p.roomId) THEN "ROOM_NOT_FOUND"
  ELSE IF Trim(p.name) = <<>> THEN "EMPTY_NAME"
  ELSE IF OtherHolds(srv.rooms[p.roomId], JoinCid(p), p.name) THEN "NAME_TAKEN"
  ELSE "ok"

JoinAckIs(ack, what) ==
  IF what = "ok" THEN ack # NoAck /\ ack[1].ok ELSE ack = AckError(what)

\* C10: join_room answers ROOM_NOT_FOUND, else EMPTY_NAME, else NAME_TAKEN,
\* else succeeds.
C10_JoinOutcomeOrder ==
  \A c \in JoinCalls :
    JoinAckIs(OnJoinRoom(srv, c[1], c[2], FreshId).ack, ExpectedJoinAck(c[2]))

\* C10 on part_000 alone.
C10_JoinOutcomeOrderPart000 == IsPart000 => C10_JoinOutcomeOrder

\* ---- C11
\* The entry of the rejoining identity after join_room request c, when the
\* request succeeds: name, spectator and host as the refresh rule gives them.
RejoinRefreshes(c) ==
  LET p   == c[2]
      r   == OnJoinRoom(srv, c[1], p, FreshId)
      old == GetUser(srv.rooms[p.roomId], JoinCid(p))
      new == GetUser(r.st.rooms[p.roomId], JoinCid(p))
  IN (r.ack # NoAck /\ r.ack[1].ok) =>
       /\ HasUser(r.st.rooms[p.roomId], JoinCid(p))
       /\ new.name = Trim(p.name)
       /\ new.spectator = p.asSpectator
       /\ new.host = (old.host \/ p.asHost)

\* C11: after a successful join_room of an identity that is a participant of
\* the room, its name is the trimmed name supplied, its spectator flag the
\* flag supplied, and its host flag the old host flag or asHost.
C11_RejoinRefreshesProfile ==
  \A c \in JoinCallsOf(FlagInputs) : IsRejoin(c[2]) => RejoinRefreshes(c)

\* C11 for part_000 alone.
C11_RejoinRefreshesProfilePart000 ==
  IsPart000 => C11_RejoinRefreshesProfile

\* ---- C12
\* The identity the acknowledgment of a join returns is cid.
AckReturns(ack, cid) ==
  ack # NoAck /\ "clientId" \in DOMAIN ack[1] /\ ack[1].clientId = cid

\* What a successful join_room request c does to the participants: a rejoin
\* keeps their number and binds the socket to the identity supplied, a join
\* with no identity adds one participant under the minted identity; the
\* acknowledgment returns the identity.
JoinResolvesIdentity(c) ==
  LET p    == c[2]
      r    == OnJoinRoom(srv, c[1], p, FreshId)
      room == srv.rooms[p.roomId]
      new  == r.st.rooms[p.roomId]
  IN (r.ack # NoAck /\ r.ack[1].ok) =>
       /\ IsRejoin(p) =>
            /\ Len(new.users) = Len(room.users)
            /\ r.st.socketToClient[c[1]] = p.clientId[1]
            /\ AckReturns(r.ack, p.clientId[1])
       /\ p.clientId = <<>> =>
            /\ ~HasUser(room, FreshId)
            /\ Len(new.users) = Len(room.users) + 1
            /\ HasUser(new, FreshId)
            /\ r.st.socketToClient[c[1]] = FreshId
            /\ AckReturns(r.ack, FreshId)

\* C12: a join_room under an identity that is in the room adds no participant
\* and is acknowledged with that identity; a join_room with no identity adds
\* a participant under a minted identity and is acknowledged with it.
C12_JoinResolvesIdentity ==
  \A c \in JoinCalls : JoinResolvesIdentity(c)

\* C12 for part_000 alone.
C12_JoinResolvesIdentityPart000 ==
  IsPart000 => C12_JoinResolvesIdentity

\* ---- C13
\* The reset requests the server can get in the current state.
ResetCalls == open \X [roomId : Inputs.named, clearStory : BOOLEAN]

\* Reset request c on an existing room leaves it not revealed with every vote
\* null, and broadcasts one snapshot that says so.
ResetClears(c) ==
  LET r    == OnReset(srv, c[1], c[2])
      room == r.st.rooms[c[2].roomId]
  IN /\ ~room.revealed
     /\ \A i \in 1..Len(room.users) : room.users[i].vote = NoVote
     /\ Len(r.out) = 1
     /\ r.out[1].ev = "room_state" /\ r.out[1].to = c[2].roomId
     /\ ~r.out[1].data.revealed
     /\ Len(r.out[1].data.users) = Len(room.users)
     /\ \A i \in 1..Len(r.out[1].data.users) : ~r.out[1].data.users[i].voted

\* C13: after reset on an existing room, revealed is false, every vote is
\* null and every voted flag of the snapshot broadcast is false.
C13_ResetClearsVotes ==
  \A c \in ResetCalls : Has(srv.rooms, c[2].roomId) => ResetClears(c)

\* A revealed room with a vote in it, which a reset clears.
C13_Witness ==
  /\ IsPart000
  /\ nEvents < MaxEvents
  /\ \E c \in ResetCalls :
       /\ Has(srv.rooms, c[2].roomId)
       /\ srv.rooms[c[2].roomId].revealed
       /\ \E i \in 1..Len(srv.rooms[c[2].roomId].users) :
            srv.rooms[c[2].roomId].users[i].vote # NoVote
       /\ ResetClears(c)

\* ---- C14
\* Reset request c keeps the story unless clearStory is set, and then empties
\* it; the deck and everything of every participant but the vote stay.
ResetFrame(c) ==
  LET old == srv.rooms[c[2].roomId]
      new == OnReset(srv, c[1], c[2]).st.rooms[c[2].roomId]
  IN /\ new.story = (IF c[2].clearStory THEN <<>> ELSE old.story)
     /\ new.deck = old.deck
     /\ Len(new.users) = Len(old.users)
     /\ \A i \in 1..Len(old.users) :
          new.users[i] = [old.users[i] EXCEPT !.vote = new.users[i].vote]

\* C14: reset leaves the story when clearStory is not set and empties it when
\* it is set; the deck and each participant's name, host flag, spectator flag
\* and sockets are unchanged.
C14_ResetKeepsTheRest ==
  \A c \in ResetCalls : Has(srv.rooms, c[2].roomId) => ResetFrame(c)

\* A room with a story and a participant that is host and spectator, reset
\* with and without clearStory.
C14_Witness ==
  /\ IsPart000
  /\ nEvents < MaxEvents
  /\ \E c \in ResetCalls, d \in ResetCalls :
       /\ Has(srv.rooms, c[2].roomId) /\ d[2].roomId = c[2].roomId
       /\ srv.rooms[c[2].roomId].story # <<>>
       /\ \E i \in 1..Len(srv.rooms[c[2].roomId].users) :
            /\ srv.rooms[c[2].roomId].users[i].host
            /\ srv.rooms[c[2].roomId].users[i].spectator
       /\ c[2].clearStory /\ ~d[2].clearStory
       /\ OnReset(srv, c[1], c[2]).st.rooms[c[2].roomId].story = <<>>
       /\ OnReset(srv, d[1], d[2]).st.rooms[c[2].roomId].story # <<>>

\* ---- C15
\* The cast_vote requests the server can get in the current state.
VoteCalls == open \X [roomId : Inputs.named, value : Inputs.votes]

\* The reveal payload the running program computes for a room.
RevealOf(room) ==
  IF IsPart000 THEN computeRevealPayload(room) ELSE computeReveal(room)

\* Vote request c was applied: the server broadcast on it.
VoteSucceeds(c) == OnCastVote(srv, c[1], c[2]).out # <<>>

\* The broadcasts of vote request c hold a reveal_result to the room that is
\* the payload of the room as the vote left it, with the value just cast in
\* the caster's entry.
VoteRefreshesReveal(c) ==
  LET r    == OnCastVote(srv, c[1], c[2])
      room == r.st.rooms[c[2].roomId]
      cid  == srv.socketToClient[c[1]]
  IN \E k \in 1..Len(r.out) :
       /\ r.out[k].ev = "reveal_result" /\ r.out[k].to = c[2].roomId
       /\ r.out[k].data = RevealOf(room)
       /\ \E i \in 1..Len(r.out[k].data.votes) :
            /\ r.out[k].data.votes[i].id = cid
            /\ r.out[k].data.votes[i].vote = Voted(c[2].value)

\* C15: in a revealed room every cast_vote that is applied broadcasts, in the
\* same step, a reveal_result with the value cast in the caster's entry and
\* the average of the votes as they now are.
C15_VoteAfterRevealRefreshes ==
  \A c \in VoteCalls :
    (Has(srv.rooms, c[2].roomId) /\ srv.rooms[c[2].roomId].revealed /\ VoteSucceeds(c))
      => VoteRefreshesReveal(c)

\* A revealed room in which a participant that has not voted casts a vote
\* that is applied.
C15_Witness ==
  /\ IsPart000
  /\ nEvents < MaxEvents
  /\ \E c \in VoteCalls :
       /\ Has(srv.rooms, c[2].roomId) /\ srv.rooms[c[2].roomId].revealed
       /\ VoteSucceeds(c)
       /\ GetUser(srv.rooms[c[2].roomId], srv.socketToClient[c[1]]).vote = NoVote
       /\ VoteRefreshesReveal(c)

\* ---- C16
\* A vote parses as a number: it is a text that parseFloat reads as a finite
\* number.
ParsesAsNumber(vote) == IsFinite(parseFloat(vote))
NumberOf(vote) == parseFloat(vote)[1].val

\* The sum of the votes of the users at the indices S.
RECURSIVE SumOfVotes(_, _)
SumOfVotes(users, S) ==
  IF S = {} THEN 0
  ELSE LET i == CHOOSE j \in S : TRUE
       IN NumberOf(users[i].vote) + SumOfVotes(users, S \ {i})

\* The mean of the votes that parse as numbers, null (<<>>) when none does;
\* the quotient sum / n is kept as the pair.
MeanOfNumericVotes(users) ==
  LET numeric == { i \in 1..Len(users) : ParsesAsNumber(users[i].vote) }
  IN IF numeric = {} THEN <<>>
     ELSE << [sum |-> SumOfVotes(users, numeric), n |-> Cardinality(numeric)] >>

VotesOf(room) == [i \in 1..Len(room.users) |-> room.users[i].vote]

\* The payload of a room itemizes every participant, averages the votes that
\* parse as numbers, and gives 5.5 on 3, 8, ? and null on ?, cup.
AverageIsMean(room) ==
  LET payload == RevealOf(room)
  IN /\ Len(payload.votes) = Len(room.users)
     /\ \A i \in 1..Len(room.users) :
          /\ payload.votes[i].id = room.users[i].clientId
          /\ payload.votes[i].vote = room.users[i].vote
     /\ payload.average = MeanOfNumericVotes(room.users)
     /\ VotesOf(room) = << Voted(<<"3">>), Voted(<<"8">>), Voted(<<"?">>) >> =>
          /\ payload.average # <<>>
          /\ 10 * payload.average[1].sum = 55 * payload.average[1].n
     /\ VotesOf(room) = << Voted(<<"?">>), Voted(<<"cup">>) >> =>
          payload.average = <<>>

\* C16: the average of the reveal payload is the mean of the votes that parse
\* as numbers and null when none does; every participant is itemized.
C16_AverageIsMeanOfNumericVotes ==
  \A r \in DOMAIN srv.rooms : AverageIsMean(srv.rooms[r])

\* C16 for part_000 alone.
C16_AverageIsMeanPart000 ==
  IsPart000 => C16_AverageIsMeanOfNumericVotes

\* C16 for the rooms in which no vote reads as an infinity.
C16_AverageIsMeanOfFiniteVotes ==
  \A r \in DOMAIN srv.rooms :
    (\A i \in 1..Len(srv.rooms[r].users) :
       LET x == parseFloat(srv.rooms[r].users[i].vote) IN IsNaN(x) \/ IsFinite(x))
    => AverageIsMean(srv.rooms[r])

\* ---- C17
\* The identities and the votes of the itemized list of a room, in its order.
ItemIds(room) == [i \in 1..Len(RevealOf(room).votes) |-> RevealOf(room).votes[i].id]
ItemVotes(room) == [i \in 1..Len(RevealOf(room).votes) |-> RevealOf(room).votes[i].vote]

\* One entry per participant, and a payload that is read from the
\* participants alone.
OneItemEach(room) ==
  /\ Len(ItemIds(room)) = Len(room.users)
  /\ \A i \in 1..Len(room.users) : \E j \in 1..Len(ItemIds(room)) :
       ItemIds(room)[j] = room.users[i].clientId /\ ItemVotes(room)[j] = room.users[i].vote
  /\ \A i, j \in 1..Len(ItemIds(room)) : ItemIds(room)[i] = ItemIds(room)[j] => i = j
  /\ RevealOf(room) =
       RevealOf([room EXCEPT !.story = <<>>, !.deck = <<>>, !.revealed = FALSE])

\* A successful join of a new identity puts its entry, with no vote, after
\* the entries there were; a rejoin leaves identities and votes as they were.
JoinItemizedLast(c) ==
  LET p   == c[2]
      r   == OnJoinRoom(srv, c[1], p, FreshId)
      old == srv.rooms[p.roomId]
      new == r.st.rooms[p.roomId]
  IN (r.ack # NoAck /\ r.ack[1].ok) =>
       IF HasUser(old, JoinCid(p))
       THEN ItemIds(new) = ItemIds(old) /\ ItemVotes(new) = ItemVotes(old)
       ELSE /\ ItemIds(new) = Append(ItemIds(old), JoinCid(p))
            /\ ItemVotes(new) = Append(ItemVotes(old), NoVote)

\* A vote that is applied puts the value cast in the caster's entry and
\* leaves the order and the other votes.
VoteItemized(c) ==
  LET r   == OnCastVote(srv, c[1], c[2])
      old == srv.rooms[c[2].roomId]
      new == r.st.rooms[c[2].roomId]
  IN IF ~VoteSucceeds(c) THEN r.st = srv
     ELSE /\ ItemIds(new) = ItemIds(old)
          /\ \E i \in 1..Len(ItemIds(old)) :
               ItemVotes(new) = [ItemVotes(old) EXCEPT ![i] = Voted(c[2].value)]

\* A reset leaves the order and empties every vote.
ResetItemized(c) ==
  LET old == srv.rooms[c[2].roomId]
      new == OnReset(srv, c[1], c[2]).st.rooms[c[2].roomId]
  IN /\ ItemIds(new) = ItemIds(old)
     /\ \A i \in 1..Len(ItemVotes(new)) : ItemVotes(new)[i] = NoVote

\* A disconnect drops the entries of the participants it removes and leaves
\* the others in their order with their votes.
DisconnectItemized(sid, r) ==
  LET old == srv.rooms[r]
      new == OnDisconnect(srv, sid).st.rooms[r]
      stays(e) == HasUser(new, e.id)
  IN RevealOf(new).votes = SelectSeq(RevealOf(old).votes, stays)

\* C17: the itemized list has one entry per participant of the room, in the
\* order the participants were inserted, each with the value the participant
\* cast last since the last reset, null if none.
C17_ItemizedInInsertionOrder ==
  /\ \A r \in DOMAIN srv.rooms : OneItemEach(srv.rooms[r])
  /\ \A c \in JoinCallsOf(KeyInputs) : Has(srv.rooms, c[2].roomId) => JoinItemizedLast(c)
  /\ \A c \in VoteCalls : Has(srv.rooms, c[2].roomId) => VoteItemized(c)
  /\ \A c \in ResetCalls : Has(srv.rooms, c[2].roomId) => ResetItemized(c)
  /\ \A sid \in open : \A r \in DOMAIN srv.rooms : DisconnectItemized(sid, r)

\* C17 in part_000 alone.
C17_ItemizedInInsertionOrderPart000 ==
  IsPart000 => C17_ItemizedInInsertionOrder

\* C17 for the joins under a clientId that is no integer index.
C17_ItemizedInOrderOfTextKeys ==
  /\ \A r \in DOMAIN srv.rooms : OneItemEach(srv.rooms[r])
  /\ \A c \in JoinCallsOf(KeyInputs) :
       (Has(srv.rooms, c[2].roomId) /\ ~IsIndexKey(JoinCid(c[2]))) => JoinItemizedLast(c)
  /\ \A c \in VoteCalls : Has(srv.rooms, c[2].roomId) => VoteItemized(c)
  /\ \A c \in ResetCalls : Has(srv.rooms, c[2].roomId) => ResetItemized(c)
  /\ \A sid \in open : \A r \in DOMAIN srv.rooms : DisconnectItemized(sid, r)

\* ---- C18
\* The reveal requests the server can get in the current state.
RevealCalls == open \X [roomId : Inputs.named]

\* Reveal request c leaves the room revealed and broadcasts to the room its
\* reveal payload and its snapshot, which says revealed.
RevealBroadcasts(c) ==
  LET r    == OnReveal(srv, c[1], c[2])
      room == r.st.rooms[c[2].roomId]
  IN /\ room.revealed
     /\ \E k \in 1..Len(r.out) :
          /\ r.out[k].ev = "reveal_result" /\ r.out[k].to = c[2].roomId
          /\ r.out[k].data = RevealOf(room)
          /\ r.out[k].rcpt = { s \in SocketIds : c[2].roomId \in srv.joined[s] }
     /\ \E k \in 1..Len(r.out) :
          /\ r.out[k].ev = "room_state" /\ r.out[k].to = c[2].roomId
          /\ r.out[k].data = Snapshot(room) /\ r.out[k].data.revealed
          /\ r.out[k].rcpt = { s \in SocketIds : c[2].roomId \in srv.joined[s] }

\* C18: reveal on an existing room sets revealed and broadcasts to the room
\* the reveal result and a snapshot in which revealed is true.
C18_RevealBroadcastsBoth ==
  \A c \in RevealCalls : Has(srv.rooms, c[2].roomId) => RevealBroadcasts(c)

\* A room that is not revealed, with a vote cast and a socket joined, on
\* which reveal does so.
C18_Witness ==
  /\ IsPart000
  /\ nEvents < MaxEvents
  /\ \E c \in RevealCalls :
       /\ Has(srv.rooms, c[2].roomId)
       /\ ~srv.rooms[c[2].roomId].revealed
       /\ c[2].roomId \in srv.joined[c[1]]
       /\ \E i \in 1..Len(srv.rooms[c[2].roomId].users) :
            srv.rooms[c[2].roomId].users[i].vote # NoVote
       /\ RevealBroadcasts(c)

\* ---- C19
\* Vote request c comes from no participant of the room it names: the room
\* does not exist, or the socket is bound to no identity, or to one that is
\* not in the room.
VoteFromOutside(c) ==
  \/ ~Has(srv.rooms, c[2].roomId)
  \/ ~Has(srv.socketToClient, c[1])
  \/ ~HasUser(srv.rooms[c[2].roomId], srv.socketToClient[c[1]])

\* C19: a cast_vote from no participant of the room it names changes nothing
\* in the store and broadcasts nothing.
C19_VoteFromOutsideIsNoOp ==
  \A c \in VoteCalls :
    VoteFromOutside(c) =>
      LET r == OnCastVote(srv, c[1], c[2]) IN r.st = srv /\ r.out = <<>>

\* C19 in part_000 alone.
C19_VoteFromOutsideIsNoOpPart000 ==
  IsPart000 => C19_VoteFromOutsideIsNoOp

\* C19 for the rooms that have no participant under the clientId undefined.
C19_VoteFromOutsideWithoutUndefined ==
  \A c \in VoteCalls :
    (VoteFromOutside(c) /\ \A r \in DOMAIN srv.rooms : ~HasUser(srv.rooms[r], "undefined"))
      => LET r == OnCastVote(srv, c[1], c[2]) IN r.st = srv /\ r.out = <<>>

\* ---- C20
\* C20: the deck of every room is non-empty, whether the room was created
\* with the default deck or with a deck of its own, and after any set_deck.
C20_DeckNeverEmpty ==
  \A r \in DOMAIN srv.rooms : srv.rooms[r].deck # <<>>

\* C20 for the events after the creation of a room: no event empties a deck
\* that is non-empty.
C20_DeckStaysNonEmpty ==
  [][ \A r \in DOMAIN srv.rooms :
        srv.rooms[r].deck # <<>> => srv'.rooms[r].deck # <<>> ]_vars

\* ---- C21
\* The set_story requests the server can get in the current state.
StoryCalls == open \X [roomId : Inputs.named, story : StoryInputs.stories]

\* The first n code units of a text.
FirstUnits(text, n) ==
  [i \in 1..(IF Len(text) <= n THEN Len(text) ELSE n) |-> text[i]]

\* C21: a story has at most 280 code units; set_story on an existing room
\* stores the first 280 code units of the text, and no other event makes a
\* story longer.
C21_StoryAtMost280 ==
  /\ [](\A r \in DOMAIN srv.rooms : Len(srv.rooms[r].story) <= 280)
  /\ [](IsPart000 =>
          \A c \in StoryCalls :
            Has(srv.rooms, c[2].roomId) =>
              OnSetStory(srv, c[1], c[2]).st.rooms[c[2].roomId].story
                = FirstUnits(c[2].story, 280))
  /\ [][ last'.op # "set_story" =>
           \A r \in DOMAIN srv.rooms :
             Len(srv'.rooms[r].story) <= Len(srv.rooms[r].story) ]_vars

\* A set_story with a text of more than 280 code units has just left a story
\* of 280.
C21_Witness ==
  /\ IsPart000
  /\ last.op = "set_story"
  /\ Has(srv.rooms, last.roomId)
  /\ Len(srv.rooms[last.roomId].story) = 280
  /\ srv.rooms[last.roomId].story[280] = "x"

\* ---- C22
\* The set_story, set_deck, reveal and reset requests the server can get in
\* the current state, and the deck arguments set_deck refuses.
FrameStoryCalls == open \X [roomId : Inputs.named, story : Inputs.stories]
FrameDeckCalls == open \X [roomId : Inputs.named, deck : DeckInputs.decks]
RefusedDecks == { d \in DeckInputs.decks : ~d.isArray \/ d.items = <<>> }

\* The listener run r changed nothing and sent nothing.
NoEffect(r) == r.st = srv /\ r.out = <<>>

\* C22: set_story, set_deck, reveal and reset naming a room that does not
\* exist, and set_deck with an empty deck or a deck that is not a list, change
\* no state and broadcast nothing.
C22_BadRequestsAreNoOps ==
  /\ \A c \in FrameStoryCalls :
       ~Has(srv.rooms, c[2].roomId) => NoEffect(OnSetStory(srv, c[1], c[2]))
  /\ \A c \in FrameDeckCalls :
       (~Has(srv.rooms, c[2].roomId) \/ c[2].deck \in RefusedDecks)
         => NoEffect(OnSetDeck(srv, c[1], c[2]))
  /\ \A c \in RevealCalls :
       ~Has(srv.rooms, c[2].roomId) => NoEffect(OnReveal(srv, c[1], c[2]))
  /\ \A c \in ResetCalls :
       ~Has(srv.rooms, c[2].roomId) => NoEffect(OnReset(srv, c[1], c[2]))

\* A set_deck has just run on a room with a joined participant and sent
\* nothing, while another named room does not exist.
C22_Witness ==
  /\ IsPart000
  /\ last.op = "set_deck"
  /\ Has(srv.rooms, last.roomId)
  /\ \E s \in open : last.roomId \in srv.joined[s]
  /\ out = <<>>
  /\ \E r \in Inputs.named : ~Has(srv.rooms, r)

\* ---- C23
\* The sockets of the participants of a room.
BoundIn(room) == UNION { room.users[i].sockets : i \in DOMAIN room.users }

\* C23: a disconnect sends a snapshot to a room only if the closing
\* connection was one of the connections of a participant of that room.
C23_DisconnectBroadcastsOnlyWhereBound ==
  [][ last'.op = "disconnect" =>
        \A i \in DOMAIN out' :
          out'[i].ev = "room_state" =>
            /\ Has(srv.rooms, out'[i].to)
            /\ last'.sid \in BoundIn(srv.rooms[out'[i].to]) ]_vars

\* C23 in rooms where the identity of the closing connection is no
\* participant: such a room is sent nothing.
C23_DisconnectSilentWhereNoParticipant ==
  [][ last'.op = "disconnect" =>
        \A i \in DOMAIN out' :
          out'[i].ev = "room_state" =>
            /\ Has(srv.rooms, out'[i].to)
            /\ Has(srv.socketToClient, last'.sid)
            /\ HasUser(srv.rooms[out'[i].to], srv.socketToClient[last'.sid]) ]_vars

\* ---- C24
\* The throw requests the server can get in the current state, and the id
\* nanoid(6) gives the event.
ThrowCalls == open \X [roomId : Inputs.named \cup {""}, item : {"x"}]
ThrowId == "t"

\* The connections joined to a room.
JoinedTo(roomId) == { s \in SocketIds : roomId \in srv.joined[s] }

\* A throw naming a room that exists sends one throw event, with the id made
\* for it, to every connection joined to the room.
ThrowDelivers(c) ==
  LET r == OnThrow(srv, c[1], c[2], ThrowId)
  IN Has(srv.rooms, c[2].roomId) =>
       /\ Len(r.out) = 1
       /\ r.out[1].ev = "throw"
       /\ r.out[1].data.id = ThrowId
       /\ r.out[1].rcpt = JoinedTo(c[2].roomId)

\* A throw naming a room that does not exist reaches no connection.
ThrowReachesNobody(c) ==
  LET r == OnThrow(srv, c[1], c[2], ThrowId)
  IN ~Has(srv.rooms, c[2].roomId) =>
       \A i \in DOMAIN r.out : r.out[i].rcpt = {}

\* C24: a throw naming a room that does not exist is not acknowledged with
\* ok and delivers no event; a throw naming a room that exists delivers one
\* event with its own id to every connection joined to the room.
C24_ThrowNeedsARoom ==
  \A c \in ThrowCalls :
    /\ ~Has(srv.rooms, c[2].roomId) =>
         ~AckedOk(OnThrow(srv, c[1], c[2], ThrowId))
    /\ ThrowReachesNobody(c)
    /\ ThrowDelivers(c)

\* C24 without the acknowledgement: who is sent the event.
C24_ThrowDelivery ==
  \A c \in ThrowCalls : ThrowReachesNobody(c) /\ ThrowDelivers(c)

\* ---- C25
\* C25: a throw changes no state: the rooms, their participants, the
\* connections' identities and the connections joined to each room are after
\* the throw what they were before it.
C25_ThrowChangesNoState ==
  \A c \in ThrowCalls : OnThrow(srv, c[1], c[2], ThrowId).st = srv

\* A throw has just been sent to the joined connections of a room with a
\* participant who has voted.
C25_Witness ==
  /\ last.op = "throw"
  /\ Has(srv.rooms, last.roomId)
  /\ out # <<>>
  /\ out[1].ev = "throw"
  /\ out[1].rcpt # {}
  /\ \E i \in DOMAIN srv.rooms[last.roomId].users :
       srv.rooms[last.roomId].users[i].vote # NoVote

\* ---- C26
\* The acknowledgements of every request of the five acknowledged events the
\* server can get in the current state.
AcksOfRequests ==
  { OnJoinRoom(srv, c[1], c[2], FreshId).ack : c \in JoinCalls }
    \cup { OnCastVote(srv, c[1], c[2]).ack : c \in VoteCalls }
    \cup { OnReveal(srv, c[1], c[2]).ack : c \in RevealCalls }
    \cup { OnReset(srv, c[1], c[2]).ack : c \in ResetCalls }
    \cup { OnThrow(srv, c[1], c[2], ThrowId).ack : c \in ThrowCalls }

\* C26: every join_room, cast_vote, reveal, reset and throw request is
\* acknowledged exactly once, when it succeeds and on every path where it
\* fails.
C26_EveryRequestAckedOnce ==
  \A a \in AcksOfRequests : Len(a) = 1

\* C26 for the listeners of part_000.
C26_EveryRequestAckedOncePart000 ==
  IsPart000 => \A a \in AcksOfRequests : Len(a) = 1

\* C26 for join_room alone, in both programs.
C26_JoinAckedOnce ==
  \A c \in JoinCalls : Len(OnJoinRoom(srv, c[1], c[2], FreshId).ack) = 1

\* ---- C27
\* The places of the room_state messages for a room among the messages msgs
\* of one listener run.
SnapshotPlaces(msgs, roomId) ==
  { i \in DOMAIN msgs : msgs[i].ev = "room_state" /\ msgs[i].to = roomId }

\* C27: a listener runs as one step, and a step that changes a room sends the
\* room one room_state message: it goes to every connection joined to the
\* room and holds the projection of the room as the step leaves it; no step
\* sends a room a snapshot of an older state, so snapshots leave in the order
\* of the changes.
C27_ChangeThenSnapshot ==
  [][ \A r \in DOMAIN srv.rooms :
        /\ srv'.rooms[r] # srv.rooms[r] => SnapshotPlaces(out', r) # {}
        /\ Cardinality(SnapshotPlaces(out', r)) <= 1
        /\ \A i \in SnapshotPlaces(out', r) :
             /\ out'[i].data = Snapshot(srv'.rooms[r])
             /\ out'[i].rcpt = { s \in SocketIds : r \in srv'.joined[s] } ]_vars

\* A vote has just changed a room two connections are joined to, and both
\* are sent the snapshot.
C27_Witness ==
  /\ last.op = "cast_vote"
  /\ Has(srv.rooms, last.roomId)
  /\ Cardinality(JoinedTo(last.roomId)) = 2
  /\ SnapshotPlaces(out, last.roomId) # {}
  /\ \A i \in SnapshotPlaces(out, last.roomId) :
       /\ out[i].rcpt = JoinedTo(last.roomId)
       /\ \E j \in DOMAIN out[i].data.users : out[i].data.users[j].voted

\* ---- C28
\* The host flag of identity cid in a room of store st, FALSE when cid is no
\* participant of it.
HostIn(st, roomId, cid) ==
  /\ Has(st.rooms, roomId)
  /\ HasUser(st.rooms[roomId], cid)
  /\ GetUser(st.rooms[roomId], cid).host

\* C28, as far as it holds: a participant who is host is host after every
\* event that leaves the identity a participant of the room; joins, rejoins
\* and disconnects of one of several connections keep the flag.
C28_HostKeptWhileParticipant ==
  [][ \A r \in DOMAIN srv.rooms : \A i \in DOMAIN srv.rooms[r].users :
        LET u == srv.rooms[r].users[i]
        IN (u.host /\ HasUser(srv'.rooms[r], u.clientId))
             => HostIn(srv', r, u.clientId) ]_vars

\* C28: once an identity is host of a room it is host in every later state
\* in which it is a participant of the room; here the later state is the one
\* reached when the host's only connection closes and the identity joins the
\* room again.
C28_HostOnceHostAlways ==
  IsPart000 =>
  \A r \in DOMAIN srv.rooms : \A i \in DOMAIN srv.rooms[r].users :
    LET u == srv.rooms[r].users[i]
    IN \A sid \in open, c \in JoinCallsOf(FlagInputs) :
         (/\ u.host
          /\ u.sockets = {sid}
          /\ c[1] # sid
          /\ c[2].roomId = r
          /\ c[2].clientId = << u.clientId >>)
           => LET gone == OnDisconnect(srv, sid).st
                  back == OnJoinRoom(gone, c[1], c[2], FreshId).st
              IN HasUser(back.rooms[r], u.clientId) => HostIn(back, r, u.clientId)

\* One of the two connections of a host has just closed, and the identity is
\* a participant and host still.
C28_Witness ==
  /\ IsPart000
  /\ last.op = "disconnect"
  /\ \E r \in DOMAIN srv.rooms : \E i \in DOMAIN srv.rooms[r].users :
       /\ srv.rooms[r].users[i].host
       /\ srv.rooms[r].users[i].sockets # {}
       /\ SnapshotPlaces(out, r) # {}

\* ---- C29
\* The connection sid belongs to a participant of the room who is host.
IssuedByHost(sid, roomId) ==
  /\ Has(srv.socketToClient, sid)
  /\ HostIn(srv, roomId, srv.socketToClient[sid])

\* The revealed flag and the votes of a room of store st.
RevealedAndVotes(st, roomId) ==
  [revealed |-> st.rooms[roomId].revealed,
   votes |-> [i \in DOMAIN st.rooms[roomId].users |-> st.rooms[roomId].users[i].vote]]

\* C29: a reveal or a reset issued by a connection whose participant is not
\* a host of the room leaves revealed and all votes of the room unchanged.
C29_OnlyHostRevealsAndResets ==
  /\ \A c \in RevealCalls :
       (Has(srv.rooms, c[2].roomId) /\ ~IssuedByHost(c[1], c[2].roomId))
         => RevealedAndVotes(OnReveal(srv, c[1], c[2]).st, c[2].roomId)
              = RevealedAndVotes(srv, c[2].roomId)
  /\ \A c \in ResetCalls :
       (Has(srv.rooms, c[2].roomId) /\ ~IssuedByHost(c[1], c[2].roomId))
         => RevealedAndVotes(OnReset(srv, c[1], c[2]).st, c[2].roomId)
              = RevealedAndVotes(srv, c[2].roomId)

\* What the listeners do instead: a reveal or a reset naming an existing room
\* takes effect whoever issues it.
C29_AnyConnectionRevealsAndResets ==
  /\ \A c \in RevealCalls :
       Has(srv.rooms, c[2].roomId)
         => OnReveal(srv, c[1], c[2]).st.rooms[c[2].roomId].revealed
  /\ \A c \in ResetCalls :
       Has(srv.rooms, c[2].roomId)
         => LET room == OnReset(srv, c[1], c[2]).st.rooms[c[2].roomId]
            IN /\ ~room.revealed
               /\ \A i \in DOMAIN room.users : room.users[i].vote = NoVote

\* ---- C30
\* C30: a room that has been created stays in the registry under the same id
\* after every event, the disconnect of its last participant included, and a
\* join_room naming it is not refused with ROOM_NOT_FOUND.
C30_RoomsStay ==
  /\ [][ \A r \in DOMAIN srv.rooms :
           Has(srv'.rooms, r) /\ srv'.rooms[r].id = srv.rooms[r].id ]_vars
  /\ [](\A r \in DOMAIN srv.rooms : srv.rooms[r].id = r)
  /\ [](\A c \in JoinCallsOf(RoomsInputs) :
          Has(srv.rooms, c[2].roomId) =>
            ~AckedError(OnJoinRoom(srv, c[1], c[2], FreshId), "ROOM_NOT_FOUND"))

\* The last participant of a room has just disconnected: the room is in the
\* registry with no participant.
C30_Witness ==
  /\ IsPart000
  /\ last.op = "disconnect"
  /\ \E r \in DOMAIN srv.rooms :
       /\ srv.rooms[r].users = <<>>
       /\ SnapshotPlaces(out, r) # {}
       /\ \E c \in JoinCallsOf(RoomsInputs) :
            /\ c[2].roomId = r
            /\ AckedOk(OnJoinRoom(srv, c[1], c[2], FreshId))

\* ---- C31
\* The participants, as (room, place) pairs, whose connection set holds sid.
HoldersOf(sid) ==
  { h \in UNION { {r} \X DOMAIN srv.rooms[r].users : r \in DOMAIN srv.rooms } :
      sid \in srv.rooms[h[1]].users[h[2]].sockets }

\* C31: every open connection is in the connection set of at most one
\* participant over all rooms, and that participant is the identity
\* socketToClient records for the connection.
C31_OneBindingPerConnection ==
  IsPart000 =>
    \A sid \in open :
      /\ Cardinality(HoldersOf(sid)) <= 1
      /\ \A h \in HoldersOf(sid) :
           /\ Has(srv.socketToClient, sid)
           /\ srv.socketToClient[sid] = srv.rooms[h[1]].users[h[2]].clientId

\* What holds of C31: an open connection in some participant's connection
\* set has an identity in socketToClient, and that identity is one of the
\* participants holding it.
C31_BoundConnectionsAreMapped ==
  IsPart000 =>
    \A sid \in open :
      HoldersOf(sid) # {} =>
        /\ Has(srv.socketToClient, sid)
        /\ \E h \in HoldersOf(sid) :
             srv.socketToClient[sid] = srv.rooms[h[1]].users[h[2]].clientId

\* ---- C32
\* The votes of the participants of a room of store st, by identity.
VotesIn(st, roomId) ==
  { << st.rooms[roomId].users[i].clientId, st.rooms[roomId].users[i].vote >> :
      i \in DOMAIN st.rooms[roomId].users }

\* C32: a cast_vote changes a vote only in a room the sending connection has
\* itself joined.
C32_VoteOnlyWhereJoined ==
  \A c \in VoteCalls : \A r \in DOMAIN srv.rooms :
    VotesIn(OnCastVote(srv, c[1], c[2]).st, r) # VotesIn(srv, r)
      => r \in srv.joined[c[1]]

\* What holds of C32: a cast_vote changes votes in the room it names only,
\* and there the vote of the identity of the sending connection only.
C32_VoteOnlyOwnIdentity ==
  \A c \in VoteCalls : \A r \in DOMAIN srv.rooms :
    LET after == OnCastVote(srv, c[1], c[2]).st
    IN VotesIn(after, r) # VotesIn(srv, r)
         => /\ r = c[2].roomId
            /\ \A i \in DOMAIN srv.rooms[r].users :
                 after.rooms[r].users[i].vote # srv.rooms[r].users[i].vote
                   => srv.rooms[r].users[i].clientId = SrvClientOf(srv, c[1])

\* ---- C33
\* The votes of the participants a room had before a join, after it: a join
\* puts a new participant after the ones that are there, or at the place its
\* key has among the keys that read as array indexes.
KeptVotes(before, after) ==
  \A i \in DOMAIN before.users :
    /\ HasUser(after, before.users[i].clientId)
    /\ GetUser(after, before.users[i].clientId).vote = before.users[i].vote

\* C33: a successful join_room changes no vote: every participant who was in
\* the room, the rejoining identity included, has after the join the vote it
\* had before, and a reveal that follows lists those votes.
C33_JoinKeepsVotes ==
  \A c \in JoinCallsOf(PairInputs) :
    LET r == OnJoinRoom(srv, c[1], c[2], FreshId)
        roomId == c[2].roomId
    IN AckedOk(r) =>
         /\ KeptVotes(srv.rooms[roomId], r.st.rooms[roomId])
         /\ \A i \in DOMAIN srv.rooms[roomId].users :
              LET u == srv.rooms[roomId].users[i]
                  shown == OnReveal(r.st, c[1], [roomId |-> roomId]).st.rooms[roomId]
              IN GetUser(shown, u.clientId).vote = u.vote

\* A participant who has voted has just rejoined from a second connection;
\* the vote is there and the room is hidden.
C33_Witness ==
  /\ IsPart000
  /\ last.op = "join_room"
  /\ AckedOk(last)
  /\ Has(srv.rooms, last.roomId)
  /\ ~srv.rooms[last.roomId].revealed
  /\ \E i \in DOMAIN srv.rooms[last.roomId].users :
       /\ srv.rooms[last.roomId].users[i].vote # NoVote
       /\ Cardinality(srv.rooms[last.roomId].users[i].sockets) = 2

\* ---- C34
\* The cast_vote requests with either value the server can get in the
\* current state.
SharedVoteCalls == open \X [roomId : PairInputs.named, value : PairInputs.votes]

\* The connections of participant u that socketToClient binds to u.
BoundTo(u) ==
  { s \in u.sockets : Has(srv.socketToClient, s) /\ srv.socketToClient[s] = u.clientId }

\* C34: when several connections are bound to one identity in a room, a
\* cast_vote on any of them sets the one vote of that participant, and of two
\* votes from two of them the one applied last is the participant's vote.
C34_SharedIdentityLastVoteWins ==
  IsPart000 =>
    \A r \in DOMAIN srv.rooms : \A i \in DOMAIN srv.rooms[r].users :
      LET u == srv.rooms[r].users[i]
      IN Cardinality(BoundTo(u)) >= 2 =>
           \A c \in SharedVoteCalls, d \in SharedVoteCalls :
             (c[1] \in BoundTo(u) /\ d[1] \in BoundTo(u)
                /\ c[2].roomId = r /\ d[2].roomId = r) =>
               LET one == OnCastVote(srv, c[1], c[2]).st
                   two == OnCastVote(one, d[1], d[2]).st
               IN /\ one.rooms[r].users =
                       [srv.rooms[r].users EXCEPT ![i].vote = Voted(c[2].value)]
                  /\ two.rooms[r].users =
                       [srv.rooms[r].users EXCEPT ![i].vote = Voted(d[2].value)]

\* A vote has just come in on one of the two connections of a participant.
C34_Witness ==
  /\ IsPart000
  /\ last.op = "cast_vote"
  /\ AckedOk(last)
  /\ \E i \in DOMAIN srv.rooms[last.roomId].users :
       LET u == srv.rooms[last.roomId].users[i]
       IN /\ Cardinality(BoundTo(u)) = 2
          /\ last.sid \in BoundTo(u)
          /\ u.vote # NoVote

\* ---- C35
IsServerJs == program = "server.js"

\* The participant of the room a cast_vote names that the sending connection
\* votes as is a spectator.
SentBySpectator(sid, roomId) ==
  /\ Has(srv.rooms, roomId)
  /\ HasUser(srv.rooms[roomId], SrvClientOf(srv, sid))
  /\ GetUser(srv.rooms[roomId], SrvClientOf(srv, sid)).spectator

\* C35: in server/server.js a participant whose spectator flag is true has
\* no vote, and a cast_vote by a spectator changes nothing and broadcasts
\* nothing.
C35_SpectatorsHaveNoVote ==
  IsServerJs =>
    /\ \A r \in DOMAIN srv.rooms : \A i \in DOMAIN srv.rooms[r].users :
         srv.rooms[r].users[i].spectator => srv.rooms[r].users[i].vote = NoVote
    /\ \A c \in VoteCalls :
         SentBySpectator(c[1], c[2].roomId) => NoEffect(OnCastVote(srv, c[1], c[2]))

\* A spectator has just sent a vote to a room with a connection joined, and
\* nothing went out.
C35_Witness ==
  /\ IsServerJs
  /\ last.op = "cast_vote"
  /\ SentBySpectator(last.sid, last.roomId)
  /\ JoinedTo(last.roomId) # {}
  /\ out = <<>>

\* ---- C36
\* Store after leaves every room but roomId as store srv has it.
OtherRoomsKept(after, roomId) ==
  \A r \in DOMAIN srv.rooms \ {roomId} :
    Has(after.rooms, r) /\ after.rooms[r] = srv.rooms[r]

\* C36: join_room, set_story, set_deck, cast_vote, reveal and reset naming
\* one room leave the deck, story, revealed flag, participants and votes of
\* every other room as they were.
C36_OtherRoomsUntouched ==
  /\ \A c \in JoinCallsOf(RoomsInputs) :
       OtherRoomsKept(OnJoinRoom(srv, c[1], c[2], FreshId).st, c[2].roomId)
  /\ \A c \in FrameStoryCalls :
       OtherRoomsKept(OnSetStory(srv, c[1], c[2]).st, c[2].roomId)
  /\ \A c \in FrameDeckCalls :
       OtherRoomsKept(OnSetDeck(srv, c[1], c[2]).st, c[2].roomId)
  /\ \A c \in VoteCalls :
       OtherRoomsKept(OnCastVote(srv, c[1], c[2]).st, c[2].roomId)
  /\ \A c \in RevealCalls :
       OtherRoomsKept(OnReveal(srv, c[1], c[2]).st, c[2].roomId)
  /\ \A c \in ResetCalls :
       OtherRoomsKept(OnReset(srv, c[1], c[2]).st, c[2].roomId)

\* A connection has just joined one room while the other room is revealed.
C36_Witness ==
  /\ last.op = "join_room"
  /\ AckedOk(last)
  /\ \E r \in DOMAIN srv.rooms \ {last.roomId} : srv.rooms[r].revealed

\* ---- C37
\* Every client joined to room r holds the reveal result computed from the
\* participants and votes the room has now.
HoldsCurrentResult(r) ==
  \A s \in JoinedTo(r) : client[s].revealResult = << RevealOf(srv.rooms[r]) >>

\* C37: when a room is revealed and every broadcast has been delivered in
\* order, each client joined to the room holds the reveal result computed
\* from the room's current participants and votes; it lists no participant
\* that a disconnect has removed.
C37_ClientsHoldCurrentResult ==
  IsPart000 =>
    \A r \in DOMAIN srv.rooms : srv.rooms[r].revealed => HoldsCurrentResult(r)

\* C37 while no connection has closed, for clients joined to one room.
C37_CurrentResultWhileNobodyLeft ==
  (IsPart000 /\ closed = {}) =>
    \A r \in DOMAIN srv.rooms :
      srv.rooms[r].revealed =>
        \A s \in JoinedTo(r) :
          srv.joined[s] = {r} => client[s].revealResult = << RevealOf(srv.rooms[r]) >>

\* ---- C38
\* C38: after every broadcast has been delivered in order, the client of a
\* connection joined to exactly one room holds as revealed what the room has
\* as revealed, and it holds a reveal result only when its revealed is true.
C38_ClientFollowsRevealed ==
  \A s \in open :
    /\ \A r \in DOMAIN srv.rooms :
         srv.joined[s] = {r} => client[s].revealed = srv.rooms[r].revealed
    /\ Cardinality(srv.joined[s]) = 1 =>
         (client[s].revealResult # <<>> => client[s].revealed)

\* A reveal has just reached the client of a connection joined to one of
\* two rooms: the client is revealed and holds the result.
C38_Witness ==
  /\ last.op = "reveal"
  /\ Cardinality(DOMAIN srv.rooms) = 2
  /\ \E s \in open :
       /\ srv.joined[s] = {last.roomId}
       /\ client[s].revealed
       /\ client[s].revealResult # <<>>

\* ---- C39
\* C39: reveal and reset are idempotent on the state of the server: a reveal
\* applied twice in a row leaves what one reveal leaves, and so does a reset
\* applied twice with the same clearStory.
C39_RevealAndResetIdempotent ==
  /\ \A c \in RevealCalls :
       LET once == OnReveal(srv, c[1], c[2]).st
       IN OnReveal(once, c[1], c[2]).st = once
  /\ \A c \in ResetCalls :
       LET once == OnReset(srv, c[1], c[2]).st
       IN OnReset(once, c[1], c[2]).st = once

\* A reveal has just run on a room that holds a vote, and the same reveal
\* can be sent again.
C39_Witness ==
  /\ last.op = "reveal"
  /\ Has(srv.rooms, last.roomId)
  /\ srv.rooms[last.roomId].revealed
  /\ \E i \in DOMAIN srv.rooms[last.roomId].users :
       srv.rooms[last.roomId].users[i].vote # NoVote
  /\ << last.sid, [roomId |-> last.roomId] >> \in RevealCalls

====
